---------------------------- MODULE Spec2Model ----------------------------
(***************************************************************************)
(* Multi-room chat server with token authentication.                       *)
(*                                                                         *)
(*   AuthManager / AuthServer   lib/auth/src/AuthManager.cpp, AuthServer.cpp*)
(*   AuthClient                 lib/auth/src/AuthClient.cpp                *)
(*   ClientManager              src/server/ClientManager.cpp               *)
(*   ChatRoom                   src/server/ChatRoom.cpp                    *)
(*                                                                         *)
(* The authority keeps its own clock (std::chrono::system_clock, counted   *)
(* here in minutes, the unit of the token validity); the chat server's     *)
(* token cache reads std::chrono::steady_clock (counted in seconds, the    *)
(* unit of TOKEN_CACHE_SECONDS).  The two clocks are unrelated in the      *)
(* code and are separate variables here.                                   *)
(***************************************************************************)
EXTENDS Integers, Sequences, FiniteSets, TLC

VARIABLES
    users_,          \* IUserRepository's users_          username -> User
    active_tokens_,  \* AuthManager::active_tokens_       token -> AuthToken
    sys_now,         \* the authority's system_clock, in minutes
    issued,          \* history: token -> expires_at, issued and not revoked
    token_cache_,    \* ClientManager::token_cache_       token -> time_point
    steady_now,      \* the chat server's steady_clock, in seconds
    connected_clients_, \* ClientManager::connected_clients_  vector<ClientInfo>
    chat_rooms_,     \* ClientManager::chat_rooms_       name -> ChatRoom
    client_info,     \* handle_client's local ClientInfo, per connection
    pc,              \* where each connection's worker thread is
    pending,         \* the room a worker has created and is about to join
    ret,             \* the AuthManager call made by the last step
    cret,            \* the ClientManager::validate_token call made by the last step
    last,            \* what the last step of a connection worker did
    sent,            \* the messages the last step sent, in order
    total_added,     \* history: how many messages were added to General's history
    room_mutex_,     \* ChatRoom::room_mutex_ of General: 0, or the thread holding it
    bstate,          \* where each thread is inside ChatRoom::broadcast_message
    received,        \* what each connection has been sent by broadcast_message, in order
    held,            \* the mutexes each worker thread holds
    prog,            \* what is left of the handler each worker thread is running
    queue_,          \* ThreadSafeQueue::queue_
    stopped_,        \* ThreadSafeQueue::stopped_
    qpc,             \* where each thread is in a call on the queue
    pushed,          \* history: the push calls that have returned, in order
    popped,          \* history: the items dequeued, in order, and by whom
    qlast,           \* the call on the queue that the last step completed
    in_room_,        \* ApplicationManager::in_room_
    state_,          \* ApplicationManager::state_, the client's ApplicationState
    ui_commands_,    \* the UI commands the last step of the client pushed, in order
    inbound_msg,     \* the network message the last step of the client processed
    jstate           \* where each thread is inside join_room, and its locals

authVars == <<users_, active_tokens_, sys_now, issued>>
cacheVars == <<token_cache_, steady_now>>
lockVars == <<held, prog>>
queueVars == <<queue_, stopped_, qpc, pushed, popped, qlast>>
clientVars == <<in_room_, state_, ui_commands_, inbound_msg>>
joinVars == <<jstate>>
roomVars == <<total_added, room_mutex_, bstate, received, lockVars, queueVars, clientVars, joinVars>>
chatVars == <<connected_clients_, chat_rooms_, client_info, pc, pending, roomVars>>
vars == <<users_, active_tokens_, sys_now, issued, token_cache_, steady_now,
          connected_clients_, chat_rooms_, client_info, pc, pending,
          ret, cret, last, sent, total_added, room_mutex_, bstate, received,
          held, prog, queue_, stopped_, qpc, pushed, popped, qlast,
          in_room_, state_, ui_commands_, inbound_msg, jstate>>

-----------------------------------------------------------------------------
(* Bounds and program constants *)

VALIDITY_MINUTES == 60
TOKEN_CACHE_SECONDS == 30
MaxSysTime == 120
MaxSteadyTime == 40
MaxHistoryTotal == 2
MaxRoomHistory == 3
MaxAdded == 102
MaxBroadcasts == 2
HashMod == 7
MaxPushes == 2
MaxOthers == 1
MAX_HISTORY_SIZE == 100

SysDeltas == {30, 60}
SteadyDeltas == {5, 25}
Usernames == {"test", "carol"}
TestUser == <<"Test", "User">>
Bob == <<"Bob">>
DisplayNames == {TestUser, Bob}
Tokens == {"T1", "T2"}
FDs == {4, 5}
RoomNameOrder == <<"General", "r1">>
Texts == {<<"hi">>}
Carol == <<"Carol">>
Dave == <<"Dave">>
OrderMembers == <<[fd |-> 4, name |-> TestUser], [fd |-> 5, name |-> Bob],
                  [fd |-> 6, name |-> Carol], [fd |-> 7, name |-> Dave]>>
OrderFDs == {OrderMembers[i].fd : i \in 1..Len(OrderMembers)}
NotBroadcasting == [pc |-> "idle", n |-> 0, idx |-> 0]
JoinThreads == {4, 5, 6}
NotJoining == [pc |-> "idle", members |-> << >>, client_fds |-> << >>, idx |-> 0]
Producers == {1, 2}
Consumers == {3, 4}

\* Passwords are strings of character codes; test123 is the development
\* user's password, Colliding is a different string with the same hash.
test123 == <<1>>
hunter2 == <<2>>
Colliding == <<8>>
Passwords == {test123, hunter2, Colliding}
salt_value == <<3>>

-----------------------------------------------------------------------------
(* Maps (std::map / std::unordered_map) as functions on their key set *)

EmptyMap == << >>

MapPut(m, k, v) == [x \in DOMAIN m \cup {k} |-> IF x = k THEN v ELSE m[x]]

MapErase(m, k) == [x \in DOMAIN m \ {k} |-> m[x]]

-----------------------------------------------------------------------------
(* AuthManager *)

RECURSIVE Hasher(_)
Hasher(s) ==
    IF s = << >> THEN 0
    ELSE (Hasher(SubSeq(s, 1, Len(s) - 1)) * 31 + s[Len(s)]) % HashMod

RECURSIVE ToHex(_)
ToHex(n) == IF n < 16 THEN <<n>> ELSE ToHex(n \div 16) \o <<n % 16>>

hash_password(password) == ToHex(Hasher(password \o salt_value))

User(username, pass_hash, display) ==
    [username |-> username, password_hash |-> pass_hash,
     display_name |-> display, roles |-> << >>]

InvalidToken ==
    [token |-> "", username |-> "", display_name |-> << >>, roles |-> << >>,
     issued_at |-> 0, expires_at |-> 0, is_valid |-> FALSE]

AuthToken(tok, user, display, user_roles, now) ==
    [token |-> tok, username |-> user, display_name |-> display,
     roles |-> user_roles, issued_at |-> now,
     expires_at |-> now + VALIDITY_MINUTES, is_valid |-> TRUE]

is_expired_inclusive(t, now) == now >= t.expires_at

is_expired(t, now) == now > t.expires_at

authenticate_no_hash_check(users, tokens, username, password, tok, now) ==
    IF username \notin DOMAIN users
    THEN [tokens |-> tokens, token |-> InvalidToken]
    ELSE LET auth_token == AuthToken(tok, username, users[username].display_name,
                                     users[username].roles, now)
         IN [tokens |-> MapPut(tokens, tok, auth_token), token |-> auth_token]

\* find_user, then the hash comparison, then the insertion under mutex_.
\* tok is the value generate_token drew.
authenticate(users, tokens, username, password, tok, now) ==
    IF username \notin DOMAIN users
    THEN [tokens |-> tokens, token |-> InvalidToken]
    ELSE IF users[username].password_hash # hash_password(password)
    THEN [tokens |-> tokens, token |-> InvalidToken]
    ELSE LET auth_token == AuthToken(tok, username, users[username].display_name,
                                     users[username].roles, now)
         IN [tokens |-> MapPut(tokens, tok, auth_token), token |-> auth_token]

AuthManager_validate_token(tokens, token, now) ==
    IF token \notin DOMAIN tokens
    THEN [tokens |-> tokens, result |-> FALSE]
    ELSE IF is_expired(tokens[token], now)
    THEN [tokens |-> MapErase(tokens, token), result |-> FALSE]
    ELSE [tokens |-> tokens, result |-> tokens[token].is_valid]

\* get_username / get_display_name / get_roles: the same lookup, each
\* returning its own field; value is meaningful only when has is TRUE.
get_username(tokens, token, now) ==
    IF token \notin DOMAIN tokens
    THEN [tokens |-> tokens, has |-> FALSE, value |-> ""]
    ELSE IF is_expired(tokens[token], now)
    THEN [tokens |-> MapErase(tokens, token), has |-> FALSE, value |-> ""]
    ELSE [tokens |-> tokens, has |-> TRUE, value |-> tokens[token].username]

get_display_name(tokens, token, now) ==
    IF token \notin DOMAIN tokens
    THEN [tokens |-> tokens, has |-> FALSE, value |-> << >>]
    ELSE IF is_expired(tokens[token], now)
    THEN [tokens |-> MapErase(tokens, token), has |-> FALSE, value |-> << >>]
    ELSE [tokens |-> tokens, has |-> TRUE, value |-> tokens[token].display_name]

get_roles(tokens, token, now) ==
    IF token \notin DOMAIN tokens
    THEN [tokens |-> tokens, has |-> FALSE, value |-> << >>]
    ELSE IF is_expired(tokens[token], now)
    THEN [tokens |-> MapErase(tokens, token), has |-> FALSE, value |-> << >>]
    ELSE [tokens |-> tokens, has |-> TRUE, value |-> tokens[token].roles]

revoke_token_all(tokens, token) == EmptyMap

revoke_token(tokens, token) == MapErase(tokens, token)

create_user_overwrites(users, user) ==
    [users |-> MapPut(users, user.username, user),
     result |-> user.username \notin DOMAIN users]

create_user(users, user) ==
    IF user.username \in DOMAIN users
    THEN [users |-> users, result |-> FALSE]
    ELSE [users |-> MapPut(users, user.username, user), result |-> TRUE]

register_user(users, username, password, display_name) ==
    create_user(users, User(username, hash_password(password), display_name))

cleanup_expired_tokens_all(tokens, now) == EmptyMap

cleanup_expired_tokens(tokens, now) ==
    [t \in {x \in DOMAIN tokens : ~is_expired(tokens[x], now)} |-> tokens[t]]

-----------------------------------------------------------------------------
(* AuthServer and AuthClient: one request per connection, a line each way. *)
(* A line is its words in order; the status words are spelt out so that    *)
(* the prefix test of the client is computed.                              *)

VALID == <<"V", "A", "L", "I", "D">>
INVALID == <<"I", "N">> \o VALID
NOTFOUND == <<"N", "O", "T", "F", "O", "U", "N", "D">>
USER == <<"U", "S", "E", "R">>
NoResponse == << >>

\* std::string::find(pat) == 0
FindAtZero(s, pat) == Len(s) >= Len(pat) /\ SubSeq(s, 1, Len(pat)) = pat

RECURSIVE JoinRoles(_)
JoinRoles(roles) ==
    IF roles = << >> THEN << >>
    ELSE IF Len(roles) = 1 THEN roles[1]
    ELSE roles[1] \o <<";">> \o JoinRoles(Tail(roles))

\* The VALIDATE and GETUSER branches of AuthServer::process_request.  The
\* response is [status, words]: the status word and the words after it.
process_request(tokens, command, token, now) ==
    IF command = "VALIDATE"
    THEN LET r == AuthManager_validate_token(tokens, token, now)
         IN [tokens |-> r.tokens,
             status |-> IF r.result THEN VALID ELSE INVALID, words |-> << >>]
    ELSE LET u == get_username(tokens, token, now)
             d == get_display_name(u.tokens, token, now)
             r == get_roles(d.tokens, token, now)
         IN IF u.has /\ d.has /\ r.has
            THEN [tokens |-> r.tokens, status |-> USER,
                  words |-> <<u.value>> \o d.value \o <<JoinRoles(r.value)>>]
            ELSE [tokens |-> r.tokens, status |-> NOTFOUND, words |-> << >>]

\* AuthClient::send_command: an empty response when the authority cannot be
\* reached or does not answer.
send_command(tokens, command, token, now, reachable) ==
    IF ~reachable
    THEN [tokens |-> tokens, status |-> NoResponse, words |-> << >>]
    ELSE process_request(tokens, command, token, now)

\* A client that takes every response but INVALID for a yes.
AuthClient_validate_token_fail_open(tokens, token, now, reachable) ==
    LET response == send_command(tokens, "VALIDATE", token, now, reachable)
    IN [tokens |-> response.tokens, result |-> ~FindAtZero(response.status, INVALID)]

AuthClient_validate_token(tokens, token, now, reachable) ==
    LET response == send_command(tokens, "VALIDATE", token, now, reachable)
    IN [tokens |-> response.tokens, result |-> FindAtZero(response.status, VALID)]

\* AuthClient::get_user_info: the words after the username are the display
\* name and, after the last space, the roles.
get_user_info(tokens, token, now, reachable) ==
    LET response == send_command(tokens, "GETUSER", token, now, reachable)
        rest == Tail(response.words)
    IN IF response.status = NoResponse \/ FindAtZero(response.status, NOTFOUND)
       THEN [tokens |-> response.tokens, has |-> FALSE, display_name |-> << >>]
       ELSE IF response.status = USER
       THEN [tokens |-> response.tokens, has |-> TRUE,
             display_name |-> IF Len(rest) > 1
                              THEN SubSeq(rest, 1, Len(rest) - 1) ELSE rest]
       ELSE [tokens |-> response.tokens, has |-> FALSE, display_name |-> << >>]

-----------------------------------------------------------------------------
(* ClientManager::validate_token: the token validation cache *)

validate_token_ttl_inclusive(cache, tokens, token, now, sysnow, reachable) ==
    IF token \in DOMAIN cache /\ now - cache[token] <= TOKEN_CACHE_SECONDS
    THEN [cache |-> cache, tokens |-> tokens, result |-> TRUE, contacted |-> FALSE]
    ELSE LET r == AuthClient_validate_token(tokens, token, sysnow, reachable)
         IN [cache |-> IF r.result THEN MapPut(cache, token, now) ELSE cache,
             tokens |-> r.tokens, result |-> r.result, contacted |-> TRUE]

validate_token_caches_failure(cache, tokens, token, now, sysnow, reachable) ==
    IF token \in DOMAIN cache /\ now - cache[token] < TOKEN_CACHE_SECONDS
    THEN [cache |-> cache, tokens |-> tokens, result |-> TRUE, contacted |-> FALSE]
    ELSE LET r == AuthClient_validate_token(tokens, token, sysnow, reachable)
         IN [cache |-> MapPut(cache, token, now),
             tokens |-> r.tokens, result |-> r.result, contacted |-> TRUE]

\* now is the steady_clock reading taken on entry; sysnow is the authority's
\* clock, read there if the authority is asked.
ClientManager_validate_token(cache, tokens, token, now, sysnow, reachable) ==
    IF token \in DOMAIN cache /\ now - cache[token] < TOKEN_CACHE_SECONDS
    THEN [cache |-> cache, tokens |-> tokens, result |-> TRUE, contacted |-> FALSE]
    ELSE LET r == AuthClient_validate_token(tokens, token, sysnow, reachable)
         IN [cache |-> IF r.result THEN MapPut(cache, token, now) ELSE cache,
             tokens |-> r.tokens, result |-> r.result, contacted |-> TRUE]

-----------------------------------------------------------------------------
(* What the last step called and got back *)

Ret(op, token, user, password, ok) ==
    [op |-> op, token |-> token, user |-> user, password |-> password, ok |-> ok]

NoRet == Ret("none", "", "", << >>, FALSE)

CRet(token, result, contacted, reachable) ==
    [op |-> "validate_token", token |-> token, result |-> result,
     contacted |-> contacted, reachable |-> reachable]

NoCRet == [op |-> "none", token |-> "", result |-> FALSE,
           contacted |-> FALSE, reachable |-> FALSE]

-----------------------------------------------------------------------------
(* NetworkMessage: the envelope, and the messages the server sends.  Every *)
(* field but the type is a sequence of strings.                            *)

Msg(type, sender, text, list) ==
    [type |-> type, sender |-> sender, text |-> text, list |-> list]

SERVER == <<"SERVER">>

create_error(error_message) == Msg("ERROR", << >>, <<error_message>>, << >>)

create_room_joined(room_name) == Msg("ROOM_JOINED", << >>, <<room_name>>, << >>)

create_room_list(rooms) == Msg("ROOM_LIST", << >>, << >>, rooms)

create_participant_list(participants) == Msg("PARTICIPANT_LIST", << >>, << >>, participants)

create_broadcast_message(sender, message) == Msg("MESSAGE", sender, message, << >>)

\* What arrives on a connection: a JSON envelope or bytes that do not parse.
Envelope(token, type, room_name, message) ==
    [json |-> TRUE, token |-> token, type |-> type,
     room_name |-> room_name, message |-> message]

Garbage ==
    [json |-> FALSE, token |-> "T1", type |-> "CHAT_MESSAGE",
     room_name |-> "General", message |-> <<"hi">>]

\* NetworkMessage::deserialize: the parsed fields, or an empty message when
\* the parse throws.
deserialize(raw) ==
    IF raw.json
    THEN [token |-> raw.token, type |-> raw.type,
          room_name |-> raw.room_name, message |-> raw.message]
    ELSE [token |-> "", type |-> "", room_name |-> "", message |-> << >>]

-----------------------------------------------------------------------------
(* ChatRoom *)

NewChatRoom == [clients |-> << >>, chat_history_ |-> << >>]

\* A room that forgets to record the client.
add_client_dropped(room, fd, name) == room

add_client(room, fd, name) ==
    [room EXCEPT !.clients = Append(@, [fd |-> fd, name |-> name])]

\* A room that keeps the client it was asked to remove.
remove_client_kept(room, fd) == room

ChatRoom_remove_client(room, fd) ==
    LET keep(c) == c.fd # fd
    IN [room EXCEPT !.clients = SelectSeq(@, keep)]

has_client(room, fd) == \E i \in 1..Len(room.clients) : room.clients[i].fd = fd

\* A history that drops its oldest message one message too early.
add_message_internal_early(history, message) ==
    LET h == Append(history, message)
    IN IF Len(h) >= MAX_HISTORY_SIZE THEN Tail(h) ELSE h

add_message_internal(history, message) ==
    LET h == Append(history, message)
    IN IF Len(h) > MAX_HISTORY_SIZE THEN Tail(h) ELSE h

\* ChatRoom::add_message: add_message_internal under the room's lock.
add_message(room, message) ==
    [room EXCEPT !.chat_history_ = add_message_internal(@, message)]

\* "BROADCAST:" + message
Broadcast(message) == [message EXCEPT !.type = "BROADCAST:MESSAGE"]

\* ChatRoom::broadcast_message: the room afterwards, and the sends in order.
broadcast_message(room, message, sender_fd) ==
    LET other(c) == c.fd # sender_fd
        to == SelectSeq(room.clients, other)
    IN [room |-> [room EXCEPT !.chat_history_ = add_message_internal(@, message)],
        out |-> [i \in 1..Len(to) |-> [to |-> to[i].fd, msg |-> Broadcast(message)]]]

HistoryStart == Msg("=== Chat History ===", << >>, << >>, << >>)
HistoryEnd == Msg("=== End of History ===", << >>, << >>, << >>)

\* A replay that leaves the end marker out.
send_history_without_end(room, client_fd) ==
    IF room.chat_history_ = << >> THEN << >>
    ELSE <<[to |-> client_fd, msg |-> HistoryStart]>>
         \o [i \in 1..Len(room.chat_history_) |->
                [to |-> client_fd, msg |-> room.chat_history_[i]]]

send_history_to_client(room, client_fd) ==
    IF room.chat_history_ = << >> THEN << >>
    ELSE <<[to |-> client_fd, msg |-> HistoryStart]>>
         \o [i \in 1..Len(room.chat_history_) |->
                [to |-> client_fd, msg |-> room.chat_history_[i]]]
         \o <<[to |-> client_fd, msg |-> HistoryEnd]>>

get_client_names(room) == [i \in 1..Len(room.clients) |-> room.clients[i].name]

get_client_fds(room) == [i \in 1..Len(room.clients) |-> room.clients[i].fd]

-----------------------------------------------------------------------------
(* ClientManager.  The operations work on a record s of the shared state   *)
(* and the calling worker's locals:                                        *)
(*   clients, rooms, cache, tokens   connected_clients_, chat_rooms_,      *)
(*                                   token_cache_, the authority's tokens  *)
(*   info    each worker's ClientInfo (handle_client's local)              *)
(*   out     the messages sent so far in this step                         *)
(*   cr      the validate_token call of this step                          *)
(*   pc, pending, ev   where each worker goes next, and what happened      *)

NoInfo == [name |-> << >>, current_room |-> "", token |-> ""]

ClientInfo(fd, name, token) ==
    [fd |-> fd, name |-> name, current_room |-> "", token |-> token]

Event(fd, ev, room) == [fd |-> fd, ev |-> ev, room |-> room]

NoEvent == Event(0, "none", "")

\* A step that is not a connection worker's.
NoWorkerStep == last' = NoEvent /\ sent' = << >>

send(s, fd, msg) == [s EXCEPT !.out = Append(@, [to |-> fd, msg |-> msg])]

ClientManager_remove_client(clients, client_fd) ==
    LET keep(c) == c.fd # client_fd
    IN SelectSeq(clients, keep)

\* std::map iterates in key order
room_names(rooms) ==
    LET exists(n) == n \in DOMAIN rooms
    IN SelectSeq(RoomNameOrder, exists)

send_room_list(s, client_fd) == send(s, client_fd, create_room_list(room_names(s.rooms)))

\* The registry's copies of ClientInfo are what is read here.
broadcast_room_list_to_foyer(s) ==
    LET in_foyer(c) == c.current_room = ""
        foyer_clients == SelectSeq(s.clients, in_foyer)
        list == create_room_list(room_names(s.rooms))
    IN [s EXCEPT !.out = @ \o [i \in 1..Len(foyer_clients) |->
                                  [to |-> foyer_clients[i].fd, msg |-> list]]]

\* A member list that goes to everyone in the room but its newest member.
broadcast_member_list_to_others(s, room_name) ==
    IF room_name \notin DOMAIN s.rooms THEN s
    ELSE LET room == s.rooms[room_name]
             msg == create_participant_list(get_client_names(room))
             client_fds == get_client_fds(room)
         IN [s EXCEPT !.out = @ \o [i \in 1..(Len(client_fds) - 1) |->
                                       [to |-> client_fds[i], msg |-> msg]]]

broadcast_member_list_to_room(s, room_name) ==
    IF room_name \notin DOMAIN s.rooms THEN s
    ELSE LET room == s.rooms[room_name]
             msg == create_participant_list(get_client_names(room))
             client_fds == get_client_fds(room)
         IN [s EXCEPT !.out = @ \o [i \in 1..Len(client_fds) |->
                                       [to |-> client_fds[i], msg |-> msg]]]

create_room_overwrites(rooms, room_name) ==
    [rooms |-> MapPut(rooms, room_name, NewChatRoom), result |-> TRUE]

create_room(rooms, room_name) ==
    IF room_name \in DOMAIN rooms
    THEN [rooms |-> rooms, result |-> FALSE]
    ELSE [rooms |-> MapPut(rooms, room_name, NewChatRoom), result |-> TRUE]

JoinedText(name) == name \o <<"joined the room">>
LeftText(name) == name \o <<"left the room">>

\* A join_room that records the room in the session before looking it up.
join_room_marks_first(s, client_fd, room_name) ==
    [s EXCEPT !.info[client_fd].current_room = room_name, !.ok = FALSE]

\* ClientManager::join_room; s.ok is its return value.
join_room(s, client_fd, room_name) ==
    IF room_name \notin DOMAIN s.rooms THEN [s EXCEPT !.ok = FALSE]
    ELSE LET name == s.info[client_fd].name
             added == add_client(s.rooms[room_name], client_fd, name)
             b == broadcast_message(added, create_broadcast_message(SERVER, JoinedText(name)),
                                    client_fd)
             s1 == [s EXCEPT !.info[client_fd].current_room = room_name,
                             !.rooms[room_name] = b.room,
                             !.out = @ \o b.out \o send_history_to_client(b.room, client_fd),
                             !.ok = TRUE]
             s2 == send(s1, client_fd, create_room_joined(room_name))
         IN broadcast_member_list_to_room(broadcast_room_list_to_foyer(s2), room_name)

LeftRoom == Msg("LEFT_ROOM", << >>, <<"Left room">>, << >>)

\* A leave_room that deletes the room its last member leaves.
leave_room_erases_empty(s, client_fd) ==
    IF s.info[client_fd].current_room = "" THEN s
    ELSE LET room_name == s.info[client_fd].current_room
             s1 == IF room_name \in DOMAIN s.rooms
                   THEN LET left == ChatRoom_remove_client(s.rooms[room_name], client_fd)
                        IN IF left.clients = << >>
                           THEN [s EXCEPT !.rooms = MapErase(@, room_name)]
                           ELSE [s EXCEPT !.rooms[room_name] = left]
                   ELSE s
             s2 == [s1 EXCEPT !.info[client_fd].current_room = ""]
         IN broadcast_room_list_to_foyer(send(s2, client_fd, LeftRoom))

leave_room(s, client_fd) ==
    IF s.info[client_fd].current_room = "" THEN s
    ELSE LET room_name == s.info[client_fd].current_room
             name == s.info[client_fd].name
             s1 == IF room_name \in DOMAIN s.rooms
                   THEN LET b == broadcast_message(s.rooms[room_name],
                                     create_broadcast_message(SERVER, LeftText(name)),
                                     client_fd)
                        IN [s EXCEPT !.rooms[room_name] = ChatRoom_remove_client(b.room, client_fd),
                                     !.out = @ \o b.out]
                   ELSE s
             s2 == [s1 EXCEPT !.info[client_fd].current_room = ""]
         IN broadcast_room_list_to_foyer(send(s2, client_fd, LeftRoom))

\* A worker that acts on a message without asking whether its token is valid.
check_token_skipped(s, token, now, sysnow, reachable) ==
    [s EXCEPT !.cr = CRet(token, TRUE, FALSE, reachable)]

\* The call of validate_token at the head of both message loops.
check_token(s, token, now, sysnow, reachable) ==
    LET r == ClientManager_validate_token(s.cache, s.tokens, token, now, sysnow, reachable)
    IN [s EXCEPT !.cache = r.cache, !.tokens = r.tokens,
                 !.cr = CRet(token, r.result, r.contacted, reachable)]

\* The end of handle_client: remove_client and close.
worker_exit(s, client_fd, ev) ==
    [s EXCEPT !.clients = ClientManager_remove_client(@, client_fd),
              !.info[client_fd] = NoInfo,
              !.pc[client_fd] = "closed",
              !.ev = ev]

\* handle_foyer begins by sending the room list, then blocks in recv.
enter_foyer(s, client_fd, ev) ==
    [send_room_list(s, client_fd) EXCEPT !.pc[client_fd] = "foyer", !.ev = ev]

\* handle_room_chat looks the room up, then blocks in recv.
enter_room_chat(s, client_fd, ev) ==
    IF s.info[client_fd].current_room \notin DOMAIN s.rooms
    THEN worker_exit(s, client_fd, ev)
    ELSE [s EXCEPT !.pc[client_fd] = "room", !.ev = ev]

\* After handle_foyer returns: out of the main loop when current_room is
\* empty, into handle_room_chat otherwise.
after_foyer(s, client_fd, ev) ==
    IF s.info[client_fd].current_room = ""
    THEN worker_exit(s, client_fd, ev)
    ELSE enter_room_chat(s, client_fd, ev)

InvalidTokenError == create_error("Invalid or expired token")

\* A handle_client that registers the connection whatever its first message.
handshake_unchecked(s, client_fd, raw, sysnow, reachable) ==
    LET net_msg == deserialize(raw)
    IN enter_foyer(
           [s EXCEPT !.info[client_fd] =
                         [name |-> << >>, current_room |-> "", token |-> net_msg.token],
                     !.clients = Append(@, ClientInfo(client_fd, << >>, net_msg.token))],
           client_fd, Event(client_fd, "auth_ok", ""))

\* handle_client up to the main loop: the first message must be an AUTH
\* whose token the authority knows.
handshake(s, client_fd, raw, sysnow, reachable) ==
    LET net_msg == deserialize(raw)
        E(ev) == Event(client_fd, ev, "")
    IN IF net_msg.type # "AUTH"
       THEN [s EXCEPT !.pc[client_fd] = "closed", !.ev = E("auth_not_auth")]
       ELSE LET user_info == get_user_info(s.tokens, net_msg.token, sysnow, reachable)
                s1 == [s EXCEPT !.tokens = user_info.tokens]
            IN IF ~user_info.has
               THEN [send(s1, client_fd, InvalidTokenError)
                        EXCEPT !.pc[client_fd] = "closed", !.ev = E("auth_rejected")]
               ELSE enter_foyer(
                        [s1 EXCEPT !.info[client_fd] =
                                       [name |-> user_info.display_name,
                                        current_room |-> "", token |-> net_msg.token],
                                   !.clients = Append(@, ClientInfo(client_fd,
                                                  user_info.display_name, net_msg.token))],
                        client_fd, E("auth_ok"))

\* One turn of handle_foyer's loop on a received message.
handle_foyer(s, client_fd, raw, now, sysnow, reachable) ==
    LET net_msg == deserialize(raw)
        E(ev) == Event(client_fd, ev, net_msg.room_name)
        s1 == check_token(s, net_msg.token, now, sysnow, reachable)
    IN IF ~s1.cr.result
       THEN after_foyer(send(s1, client_fd, InvalidTokenError), client_fd, E("token_rejected"))
       ELSE IF net_msg.type = "CREATE_ROOM"
       THEN LET c == create_room(s1.rooms, net_msg.room_name)
            IN IF c.result
               THEN [s1 EXCEPT !.rooms = c.rooms, !.pc[client_fd] = "joining",
                               !.pending[client_fd] = net_msg.room_name,
                               !.ev = E("create_ok")]
               ELSE [send(s1, client_fd, create_error("Room already exists"))
                        EXCEPT !.ev = E("create_exists")]
       ELSE IF net_msg.type = "JOIN_ROOM"
       THEN LET j == join_room(s1, client_fd, net_msg.room_name)
            IN IF j.ok
               THEN after_foyer(j, client_fd, E("join_ok"))
               ELSE [send(j, client_fd, create_error("Room not found"))
                        EXCEPT !.ev = E("join_not_found")]
       ELSE IF net_msg.type = "REFRESH_ROOMS"
       THEN [send_room_list(s1, client_fd) EXCEPT !.ev = E("refresh")]
       ELSE IF net_msg.type = "QUIT"
       THEN after_foyer(s1, client_fd, E("quit"))
       ELSE [s1 EXCEPT !.ev = E("ignored")]

\* The creator's join_room after a successful create_room, and the room
\* list that follows it.
join_created(s, client_fd) ==
    LET room_name == s.pending[client_fd]
        E(ev) == Event(client_fd, ev, room_name)
        j == join_room(s, client_fd, room_name)
        s1 == [j EXCEPT !.pending[client_fd] = ""]
    IN IF j.ok
       THEN after_foyer(broadcast_room_list_to_foyer(s1), client_fd, E("created_joined"))
       ELSE [s1 EXCEPT !.pc[client_fd] = "foyer", !.ev = E("created_not_joined")]

\* After handle_room_chat returns: back to the foyer when current_room is
\* empty, out of the loop otherwise.
after_room_chat(s, client_fd, ev) ==
    IF s.info[client_fd].current_room = ""
    THEN enter_foyer(s, client_fd, ev)
    ELSE worker_exit(s, client_fd, ev)

\* One turn of handle_room_chat's loop on a received message.
handle_room_chat(s, client_fd, raw, now, sysnow, reachable) ==
    LET net_msg == deserialize(raw)
        room_name == s.info[client_fd].current_room
        E(ev) == Event(client_fd, ev, room_name)
        s1 == check_token(s, net_msg.token, now, sysnow, reachable)
    IN IF ~s1.cr.result
       THEN after_room_chat(send(s1, client_fd, InvalidTokenError), client_fd,
                            E("token_rejected"))
       ELSE IF net_msg.type = "LEAVE"
       THEN after_room_chat(leave_room(s1, client_fd), client_fd, E("leave"))
       ELSE IF net_msg.type = "QUIT"
       THEN after_room_chat(send(leave_room(s1, client_fd), client_fd,
                                 create_error("Disconnected")),
                            client_fd, E("quit"))
       ELSE IF net_msg.type = "CHAT_MESSAGE"
       THEN LET b == broadcast_message(s1.rooms[room_name],
                         create_broadcast_message(s1.info[client_fd].name, net_msg.message),
                         client_fd)
            IN [s1 EXCEPT !.rooms[room_name] = b.room, !.out = @ \o b.out,
                          !.ev = E("chat")]
       ELSE [s1 EXCEPT !.ev = E("ignored")]

-----------------------------------------------------------------------------
(* The mutexes of the chat server.  A handler is the sequence of lock,     *)
(* unlock, send and authority-request operations its code performs, the    *)
(* calls it makes included; the data-dependent branches are parameters.    *)

ManagerMutexes == {"clients_mutex_", "rooms_mutex_", "token_cache_mutex_"}
GuardedMutexes == ManagerMutexes \cup {"room_mutex_"}

Op(op, arg) == [op |-> op, arg |-> arg]

\* A scope that begins by constructing a std::lock_guard on m.
lock_guard(m, body) == <<Op("lock", m)>> \o body \o <<Op("unlock", m)>>

Sends(what, n) == [i \in 1..n |-> Op("send", what)]

RECURSIVE Repeat(_, _)
Repeat(body, n) == IF n = 0 THEN << >> ELSE body \o Repeat(body, n - 1)

validate_token_ops(cached, valid) ==
    lock_guard("token_cache_mutex_", << >>)
    \o (IF cached THEN << >>
        ELSE <<Op("request", "VALIDATE")>>
             \o (IF valid THEN lock_guard("token_cache_mutex_", << >>) ELSE << >>))

send_room_list_ops == lock_guard("rooms_mutex_", Sends("ROOM_LIST", 1))

\* A broadcast_room_list_to_foyer whose lock_guard spans the whole function.
broadcast_room_list_to_foyer_nested(foyer) ==
    lock_guard("clients_mutex_", Repeat(send_room_list_ops, foyer))

broadcast_room_list_to_foyer_ops(foyer) ==
    lock_guard("clients_mutex_", << >>) \o Repeat(send_room_list_ops, foyer)

\* A ChatRoom method: room_mutex_ from entry to return.
ChatRoom_ops(sends) == lock_guard("room_mutex_", sends)

broadcast_message_ops(others) == ChatRoom_ops(Sends("BROADCAST", others))

\* The start marker, a history of one message, the end marker.
send_history_to_client_ops == ChatRoom_ops(Sends("HISTORY", 3))

\* get_client_names, then get_client_fds, then the sends.
broadcast_member_list_to_room_ops(members) ==
    lock_guard("rooms_mutex_", << >>) \o ChatRoom_ops(<< >>) \o ChatRoom_ops(<< >>)
    \o Sends("PARTICIPANT_LIST", members)

create_room_ops == lock_guard("rooms_mutex_", << >>)

join_room_ops(found, others, foyer) ==
    lock_guard("rooms_mutex_", << >>)
    \o (IF ~found THEN << >>
        ELSE ChatRoom_ops(<< >>)
             \o broadcast_message_ops(others)
             \o send_history_to_client_ops
             \o Sends("ROOM_JOINED", 1)
             \o broadcast_room_list_to_foyer_ops(foyer)
             \o broadcast_member_list_to_room_ops(others + 1)
             \o lock_guard("cout_mutex_", << >>))

leave_room_ops(others, foyer) ==
    lock_guard("rooms_mutex_", << >>)
    \o broadcast_message_ops(others)
    \o ChatRoom_ops(<< >>)
    \o lock_guard("cout_mutex_", << >>)
    \o Sends("LEFT_ROOM", 1)
    \o broadcast_room_list_to_foyer_ops(foyer)

\* The end of handle_client: the log line, then remove_client.
worker_exit_ops == lock_guard("cout_mutex_", << >>) \o lock_guard("clients_mutex_", << >>)

\* handle_client from the first recv to the recv of handle_foyer.
handshake_ops(accepted) ==
    IF accepted
    THEN <<Op("request", "GETUSER")>>
         \o lock_guard("clients_mutex_", << >>) \o lock_guard("cout_mutex_", << >>)
         \o send_room_list_ops
    ELSE <<Op("request", "GETUSER")>> \o Sends("ERROR", 1)

\* The other connections: some in the room concerned, the rest in the foyer.
Others == {[room |-> m, foyer |-> f] : m \in 0..MaxOthers, f \in 0..MaxOthers}

\* One turn of handle_foyer's loop, up to the next recv.
handle_foyer_ops ==
    LET checked == {validate_token_ops(TRUE, TRUE), validate_token_ops(FALSE, TRUE)}
        enter_room_chat_ops == lock_guard("rooms_mutex_", << >>)
        turns ==
            {create_room_ops \o join_room_ops(TRUE, 0, o.foyer)
                 \o broadcast_room_list_to_foyer_ops(o.foyer)
                 \o lock_guard("cout_mutex_", << >>) \o enter_room_chat_ops : o \in Others}
            \cup {create_room_ops \o Sends("ERROR", 1)}
            \cup {join_room_ops(TRUE, o.room, o.foyer) \o enter_room_chat_ops : o \in Others}
            \cup {join_room_ops(FALSE, 0, 0) \o Sends("ERROR", 1)}
            \cup {send_room_list_ops}
            \cup {worker_exit_ops}
    IN {v \o t : v \in checked, t \in turns}
       \cup {validate_token_ops(FALSE, FALSE) \o Sends("ERROR", 1) \o worker_exit_ops}

\* One turn of handle_room_chat's loop, up to the next recv.
handle_room_chat_ops ==
    LET checked == {validate_token_ops(TRUE, TRUE), validate_token_ops(FALSE, TRUE)}
        turns ==
            {leave_room_ops(o.room, o.foyer) \o send_room_list_ops : o \in Others}
            \cup {leave_room_ops(o.room, o.foyer) \o Sends("ERROR", 1) \o send_room_list_ops :
                      o \in Others}
            \cup {lock_guard("cout_mutex_", << >>) \o broadcast_message_ops(o.room) :
                      o \in Others}
    IN {v \o t : v \in checked, t \in turns}
       \cup {validate_token_ops(FALSE, FALSE) \o Sends("ERROR", 1) \o worker_exit_ops}

\* What a worker thread may run between two waits in recv.
HandlerPrograms ==
    {handshake_ops(TRUE), handshake_ops(FALSE), worker_exit_ops}
    \cup handle_foyer_ops \cup handle_room_chat_ops

InitLocks ==
    /\ held = [w \in FDs |-> {}]
    /\ prog = [w \in FDs |-> << >>]

-----------------------------------------------------------------------------
(* ThreadSafeQueue (include/ThreadSafeQueue.h).  Every method runs under    *)
(* mutex_ from its first statement to its return, so a call that does not  *)
(* wait is one atomic step; pop and try_pop release the mutex only inside  *)
(* the condition variable's wait, and dequeue in the same critical section *)
(* in which they last saw the predicate hold.                              *)

NoItem == 0

\* push(const T&) and push(T&&)
push_front(queue, stopped, item) ==
    IF stopped THEN queue ELSE <<item>> \o queue

push_when_stopped(queue, stopped, item) == Append(queue, item)

push(queue, stopped, item) ==
    IF stopped THEN queue ELSE Append(queue, item)

\* A predicate that does not look at stopped_.
wait_predicate_unstopped(queue, stopped) == queue # << >>

\* The predicate pop and try_pop wait for.
wait_predicate(queue, stopped) == queue # << >> \/ stopped

pop_keeps_front(queue, stopped) ==
    IF stopped /\ queue = << >>
    THEN [queue |-> queue, result |-> FALSE, item |-> NoItem]
    ELSE [queue |-> queue, result |-> TRUE, item |-> Head(queue)]

\* A pop that gives up as soon as the queue is stopped.
pop_refuses_stopped(queue, stopped) ==
    IF stopped \/ queue = << >>
    THEN [queue |-> queue, result |-> FALSE, item |-> NoItem]
    ELSE [queue |-> Tail(queue), result |-> TRUE, item |-> Head(queue)]

\* pop once the wait has returned (the predicate holds).
pop(queue, stopped) ==
    IF stopped /\ queue = << >>
    THEN [queue |-> queue, result |-> FALSE, item |-> NoItem]
    ELSE [queue |-> Tail(queue), result |-> TRUE, item |-> Head(queue)]

\* try_pop once wait_for has returned; satisfied is what wait_for returned
\* (false: the timeout passed with the predicate false).
try_pop(queue, stopped, satisfied) ==
    IF ~satisfied \/ (stopped /\ queue = << >>) \/ queue = << >>
    THEN [queue |-> queue, result |-> FALSE, item |-> NoItem]
    ELSE [queue |-> Tail(queue), result |-> TRUE, item |-> Head(queue)]

try_pop_immediate(queue, stopped) ==
    IF queue = << >> \/ stopped
    THEN [queue |-> queue, result |-> FALSE, item |-> NoItem]
    ELSE [queue |-> Tail(queue), result |-> TRUE, item |-> Head(queue)]

\* A completed call: who made it, what it returned, whether it had waited.
QCall(op, by, ok, item, waited) ==
    [op |-> op, by |-> by, ok |-> ok, item |-> item, waited |-> waited]

NoQCall == QCall("none", 0, FALSE, NoItem, FALSE)

InitQueue ==
    /\ queue_ = << >>
    /\ stopped_ = FALSE
    /\ qpc = [t \in Producers \cup Consumers |-> "idle"]
    /\ pushed = << >>
    /\ popped = << >>
    /\ qlast = NoQCall

-----------------------------------------------------------------------------
(* The client's ApplicationManager.  A message is a sequence of tokens: a  *)
(* marker the code searches for is one token, so std::string::find of a    *)
(* marker is a search for that token wherever it stands in the message,    *)
(* inside a room name or a chat line included.                             *)

npos == 0

\* std::string::find(pat, from): the first position at or after from where
\* pat stands, positions counted from 1.
find(message, pat, from) ==
    LET hits == {i \in from..(Len(message) - Len(pat) + 1) :
                     SubSeq(message, i, i + Len(pat) - 1) = pat}
    IN IF hits = {} THEN npos ELSE CHOOSE i \in hits : \A j \in hits : i <= j

\* std::string::substr(start, end - start) for start <= end.
substr(message, start, end) == SubSeq(message, start, end - 1)

\* std::getline over the whole text: the lines, without their terminators.
RECURSIVE getlines(_)
getlines(data) ==
    IF data = << >> THEN << >>
    ELSE LET nl == find(data, <<"\n">>, 1)
         IN IF nl = npos THEN <<data>>
            ELSE <<substr(data, 1, nl)>> \o getlines(SubSeq(data, nl + 1, Len(data)))

\* std::stoi of a count the server writes.
stoi(digits) ==
    CASE digits = <<"1">> -> 1
      [] digits = <<"2">> -> 2
      [] OTHER -> 0

RoomInfo(name, client_count) == [name |-> name, client_count |-> client_count]

RECURSIVE parse_lines(_, _)
parse_lines(lines, started) ==
    IF lines = << >> THEN << >>
    ELSE LET line == Head(lines)
             pipe_pos == find(line, <<"|">>, 1)
         IN IF line = <<"ROOM_LIST">> THEN parse_lines(Tail(lines), TRUE)
            ELSE IF line = <<"END_", "ROOM_LIST">> THEN << >>
            ELSE IF line = << >> THEN parse_lines(Tail(lines), started)
            ELSE IF started /\ pipe_pos # npos
                 THEN <<RoomInfo(substr(line, 1, pipe_pos),
                                 stoi(SubSeq(line, pipe_pos + 1, Len(line))))>>
                          \o parse_lines(Tail(lines), started)
                 ELSE parse_lines(Tail(lines), started)

parse_room_list(data) == parse_lines(getlines(data), FALSE)

UICommand(type, data) == [type |-> type, data |-> data]

\* ApplicationState's constructor and reset(): the login screen, nothing else.
NewApplicationState ==
    [connected_ |-> FALSE, username_ |-> "", current_screen_ |-> "LOGIN",
     rooms_ |-> << >>, current_room_ |-> << >>, chat_messages_ |-> << >>]

\* The manager as process_network_message passes it from one check to the
\* next: its flag, its state and the commands pushed so far.
Manager(in_room, state, ui) == [in_room_ |-> in_room, state_ |-> state, ui_commands_ |-> ui]

on_connection_lost(m) ==
    Manager(m.in_room_,
            [m.state_ EXCEPT !.connected_ = FALSE, !.current_screen_ = "LOGIN"],
            m.ui_commands_ \o <<UICommand("SHOW_LOGIN", << >>),
                                UICommand("SHOW_ERROR", <<"Connection lost">>)>>)

on_joined_room(m, message) ==
    IF find(message, <<"JOINED_ROOM">>, 1) = npos THEN m
    ELSE LET pos == find(message, <<"JOINED_ROOM", ":">>, 1)
             start == pos + 2
             end == IF pos = npos THEN npos ELSE find(message, <<"\n">>, start)
             room_name == IF end # npos THEN substr(message, start, end) ELSE << >>
         IN Manager(TRUE,
                    [m.state_ EXCEPT !.current_room_ = IF end # npos THEN room_name ELSE @,
                                     !.current_screen_ = "CHATROOM",
                                     !.chat_messages_ = << >>],
                    m.ui_commands_ \o <<UICommand("SHOW_CHATROOM", room_name)>>)

on_left_room(m, message) ==
    IF find(message, <<"LEFT_ROOM">>, 1) = npos THEN m
    ELSE Manager(FALSE,
                 [m.state_ EXCEPT !.current_room_ = << >>, !.chat_messages_ = << >>],
                 m.ui_commands_)

on_room_list(m, message) ==
    IF find(message, <<"ROOM_LIST">>, 1) = npos THEN m
    ELSE LET rooms == parse_room_list(message)
         IN IF ~m.in_room_
            THEN Manager(m.in_room_,
                         [m.state_ EXCEPT !.rooms_ = rooms, !.current_screen_ = "FOYER"],
                         m.ui_commands_ \o <<UICommand("SHOW_FOYER", m.state_.username_),
                                             UICommand("UPDATE_ROOM_LIST", rooms)>>)
            ELSE Manager(m.in_room_, [m.state_ EXCEPT !.rooms_ = rooms], m.ui_commands_)

add_chat_message(m, chat_msg) ==
    Manager(m.in_room_,
            [m.state_ EXCEPT !.chat_messages_ = Append(@, chat_msg)],
            m.ui_commands_ \o <<UICommand("ADD_CHAT_MESSAGE", chat_msg)>>)

on_chat(m, message) ==
    LET pos == find(message, <<"CHAT", ":">>, 1)
        start == pos + 2
        end == IF pos = npos THEN npos ELSE find(message, <<"\n">>, start)
    IN IF end = npos THEN m ELSE add_chat_message(m, substr(message, start, end))

\* Every "BROADCAST:" of the message, from position pos on.
RECURSIVE on_broadcasts(_, _, _)
on_broadcasts(m, message, from) ==
    LET pos == find(message, <<"BROADCAST", ":">>, from)
        start == pos + 2
        end == IF pos = npos THEN npos ELSE find(message, <<"\n">>, start)
    IN IF end = npos THEN m
       ELSE on_broadcasts(add_chat_message(m, substr(message, start, end)), message, end + 1)

on_member_list(m, message) ==
    LET member_pos == find(message, <<"MEMBER_LIST", ":">>, 1)
        start == member_pos + 2
        end == IF member_pos = npos THEN npos ELSE find(message, <<"\n">>, start)
    IN IF end = npos THEN m
       ELSE Manager(m.in_room_, m.state_,
                    m.ui_commands_ \o
                        <<UICommand("UPDATE_PARTICIPANTS",
                                    SelectSeq(substr(message, start, end),
                                              LAMBDA name : name # ","))>>)

on_errors(m, message) ==
    LET exists == IF find(message, <<"ROOM_EXISTS">>, 1) # npos
                  THEN <<UICommand("SHOW_ERROR", <<"Room already exists">>)>> ELSE << >>
        missing == IF find(message, <<"ROOM_NOT_FOUND">>, 1) # npos
                   THEN <<UICommand("SHOW_ERROR", <<"Room not found">>)>> ELSE << >>
    IN Manager(m.in_room_, m.state_, m.ui_commands_ \o exists \o missing)

process_network_message(m, message) ==
    IF message \in {<<"SERVER_DISCONNECTED", "\n">>, <<"CONNECTION_ERROR", "\n">>}
    THEN on_connection_lost(m)
    ELSE on_errors(
             on_member_list(
                 on_broadcasts(
                     on_chat(
                         on_room_list(
                             on_left_room(
                                 on_joined_room(m, message), message), message),
                         message),
                     message, 1),
                 message),
             message)

\* process_input_event for the events that change the client's state.  A
\* LOGIN succeeds when the authority accepts the credentials and the chat
\* server takes the connection and the token; logged_in says whether it did.
process_input_event(m, event_type, event_data, logged_in) ==
    CASE event_type = "LOGIN" ->
             IF logged_in
             THEN Manager(m.in_room_,
                          [m.state_ EXCEPT !.username_ = "TestUser", !.connected_ = TRUE],
                          m.ui_commands_)
             ELSE Manager(m.in_room_, m.state_,
                          m.ui_commands_ \o <<UICommand("SHOW_ERROR", <<"Login failed">>)>>)
      [] event_type = "LOGOUT" ->
             Manager(m.in_room_, NewApplicationState,
                     m.ui_commands_ \o <<UICommand("SHOW_LOGIN", << >>)>>)
      [] event_type = "CHAT_MESSAGE" ->
             add_chat_message(m, <<"[You] ">> \o event_data)
      [] OTHER -> m

InitClient ==
    /\ in_room_ = FALSE
    /\ state_ = NewApplicationState
    /\ ui_commands_ = << >>
    /\ inbound_msg = << >>

-----------------------------------------------------------------------------
(* The authority's operations as steps.  AuthServer::server_loop handles   *)
(* one request at a time, so each call is one step.                        *)

Init ==
    /\ users_ = MapPut(MapPut(EmptyMap, "test", User("test", hash_password(test123), TestUser)),
                       "bob", User("bob", hash_password(hunter2), Bob))
    /\ active_tokens_ = EmptyMap
    /\ sys_now = 0
    /\ issued = EmptyMap
    /\ token_cache_ = EmptyMap
    /\ steady_now = 0
    /\ connected_clients_ = << >>
    /\ chat_rooms_ = MapPut(EmptyMap, "General", NewChatRoom)
    /\ client_info = [fd \in FDs |-> NoInfo]
    /\ pc = [fd \in FDs |-> "closed"]
    /\ pending = [fd \in FDs |-> ""]
    /\ ret = NoRet
    /\ cret = NoCRet
    /\ last = NoEvent
    /\ sent = << >>
    /\ total_added = 0
    /\ room_mutex_ = 0
    /\ bstate = [w \in FDs |-> NotBroadcasting]
    /\ received = [fd \in OrderFDs |-> << >>]
    /\ InitLocks
    /\ InitClient
    /\ jstate = [w \in JoinThreads |-> NotJoining]
    /\ InitQueue

Authenticate(username, password, tok) ==
    LET r == authenticate(users_, active_tokens_, username, password, tok, sys_now)
    IN /\ active_tokens_' = r.tokens
       /\ issued' = IF r.token.is_valid
                    THEN MapPut(issued, r.token.token, r.token.expires_at)
                    ELSE issued
       /\ ret' = Ret("authenticate", r.token.token, username, password, r.token.is_valid)
       /\ cret' = NoCRet
       /\ NoWorkerStep
       /\ UNCHANGED <<users_, sys_now, cacheVars, chatVars>>

ValidateToken(token) ==
    LET r == AuthManager_validate_token(active_tokens_, token, sys_now)
    IN /\ active_tokens_' = r.tokens
       /\ ret' = Ret("validate_token", token, "", << >>, r.result)
       /\ cret' = NoCRet
       /\ NoWorkerStep
       /\ UNCHANGED <<users_, sys_now, issued, cacheVars, chatVars>>

GetUsername(token) ==
    LET r == get_username(active_tokens_, token, sys_now)
    IN /\ active_tokens_' = r.tokens
       /\ ret' = Ret("get_username", token, r.value, << >>, r.has)
       /\ cret' = NoCRet
       /\ NoWorkerStep
       /\ UNCHANGED <<users_, sys_now, issued, cacheVars, chatVars>>

GetDisplayName(token) ==
    LET r == get_display_name(active_tokens_, token, sys_now)
    IN /\ active_tokens_' = r.tokens
       /\ ret' = Ret("get_display_name", token, "", << >>, r.has)
       /\ cret' = NoCRet
       /\ NoWorkerStep
       /\ UNCHANGED <<users_, sys_now, issued, cacheVars, chatVars>>

GetRoles(token) ==
    LET r == get_roles(active_tokens_, token, sys_now)
    IN /\ active_tokens_' = r.tokens
       /\ ret' = Ret("get_roles", token, "", << >>, r.has)
       /\ cret' = NoCRet
       /\ NoWorkerStep
       /\ UNCHANGED <<users_, sys_now, issued, cacheVars, chatVars>>

RevokeToken(token) ==
    /\ active_tokens_' = revoke_token(active_tokens_, token)
    /\ issued' = MapErase(issued, token)
    /\ ret' = Ret("revoke_token", token, "", << >>, TRUE)
    /\ cret' = NoCRet
    /\ NoWorkerStep
    /\ UNCHANGED <<users_, sys_now, cacheVars, chatVars>>

RegisterUser(username, password, display) ==
    LET r == register_user(users_, username, password, display)
    IN /\ users_' = r.users
       /\ ret' = Ret("register_user", "", username, password, r.result)
       /\ cret' = NoCRet
       /\ NoWorkerStep
       /\ UNCHANGED <<active_tokens_, sys_now, issued, cacheVars, chatVars>>

CleanupExpiredTokens ==
    /\ active_tokens_' = cleanup_expired_tokens(active_tokens_, sys_now)
    /\ ret' = Ret("cleanup_expired_tokens", "", "", << >>, TRUE)
    /\ cret' = NoCRet
    /\ NoWorkerStep
    /\ UNCHANGED <<users_, sys_now, issued, cacheVars, chatVars>>

TickSys(d) ==
    /\ sys_now + d <= MaxSysTime
    /\ sys_now' = sys_now + d
    /\ ret' = NoRet
    /\ cret' = NoCRet
    /\ NoWorkerStep
    /\ UNCHANGED <<users_, active_tokens_, issued, cacheVars, chatVars>>

AuthAuthenticate ==
    \E username \in Usernames, password \in Passwords, tok \in Tokens :
        Authenticate(username, password, tok)

AuthValidateToken == \E token \in Tokens : ValidateToken(token)

AuthGetUsername == \E token \in Tokens : GetUsername(token)

AuthGetDisplayName == \E token \in Tokens : GetDisplayName(token)

AuthGetRoles == \E token \in Tokens : GetRoles(token)

AuthRevokeToken == \E token \in Tokens : RevokeToken(token)

AuthRegisterUser ==
    \E username \in Usernames, password \in Passwords, display \in DisplayNames :
        RegisterUser(username, password, display)

AuthTickSys == \E d \in SysDeltas : TickSys(d)

NextAuth ==
    \/ AuthAuthenticate
    \/ AuthValidateToken
    \/ AuthGetUsername
    \/ AuthGetDisplayName
    \/ AuthGetRoles
    \/ AuthRevokeToken
    \/ AuthRegisterUser
    \/ CleanupExpiredTokens
    \/ AuthTickSys

SpecAuth == Init /\ [][NextAuth]_vars

-----------------------------------------------------------------------------
(* The token cache in front of the authority: one caller of                *)
(* ClientManager::validate_token, tokens issued and revoked at the         *)
(* authority, and both clocks advancing.                                   *)

CacheValidateToken(token, reachable) ==
    LET r == ClientManager_validate_token(token_cache_, active_tokens_, token,
                                          steady_now, sys_now, reachable)
    IN /\ token_cache_' = r.cache
       /\ active_tokens_' = r.tokens
       /\ cret' = CRet(token, r.result, r.contacted, reachable)
       /\ ret' = NoRet
       /\ NoWorkerStep
       /\ UNCHANGED <<users_, sys_now, issued, steady_now, chatVars>>

TickSteady(d) ==
    /\ steady_now + d <= MaxSteadyTime
    /\ steady_now' = steady_now + d
    /\ ret' = NoRet
    /\ cret' = NoCRet
    /\ NoWorkerStep
    /\ UNCHANGED <<authVars, token_cache_, chatVars>>

CacheCheck == \E token \in Tokens, reachable \in BOOLEAN : CacheValidateToken(token, reachable)

CacheIssue == Authenticate("test", test123, "T1")

CacheRevoke == RevokeToken("T1")

CacheTickSteady == \E d \in SteadyDeltas : TickSteady(d)

CacheTickSys == TickSys(VALIDITY_MINUTES)

NextCache ==
    \/ CacheCheck
    \/ CacheIssue
    \/ CacheRevoke
    \/ CacheTickSteady
    \/ CacheTickSys

SpecCache == Init /\ [][NextCache]_vars

-----------------------------------------------------------------------------
(* The chat server: one worker thread per accepted connection.  A worker   *)
(* is blocked in recv at "auth", "foyer" and "room"; at "joining" it has   *)
(* returned from create_room and is about to call join_room.  A closed     *)
(* descriptor may be handed out again by accept.                           *)

MsgTypes == {"AUTH", "CREATE_ROOM", "JOIN_ROOM", "REFRESH_ROOMS", "LEAVE", "QUIT",
             "CHAT_MESSAGE", "PING"}

RoomNames == {RoomNameOrder[i] : i \in 1..Len(RoomNameOrder)}

\* The client on descriptor 4 holds T1, the one on 5 holds T2; either may
\* present TX, a token the authority never issued.
PresentedTokens(fd) == {IF fd = 4 THEN "T1" ELSE "T2", "TX"}

Inputs(fd) ==
    {Garbage}
    \cup {Envelope(t, ty, "", << >>) :
             t \in PresentedTokens(fd),
             ty \in MsgTypes \ {"CREATE_ROOM", "JOIN_ROOM", "CHAT_MESSAGE"}}
    \cup {Envelope(t, ty, rn, << >>) :
             t \in PresentedTokens(fd), ty \in {"CREATE_ROOM", "JOIN_ROOM"}, rn \in RoomNames}
    \cup {Envelope(t, "CHAT_MESSAGE", "", m) : t \in PresentedTokens(fd), m \in Texts}

RECURSIVE TotalHistory(_, _)
TotalHistory(rooms, names) ==
    IF names = {} THEN 0
    ELSE LET n == CHOOSE x \in names : TRUE
         IN Len(rooms[n].chat_history_) + TotalHistory(rooms, names \ {n})

\* The clients send at most MaxHistoryTotal messages that are broadcast.
WithinBudget(raw, broadcasting) ==
    \/ ~raw.json
    \/ raw.type \notin broadcasting
    \/ TotalHistory(chat_rooms_, DOMAIN chat_rooms_) < MaxHistoryTotal

Snapshot ==
    [clients |-> connected_clients_, rooms |-> chat_rooms_, info |-> client_info,
     cache |-> token_cache_, tokens |-> active_tokens_, pc |-> pc, pending |-> pending,
     out |-> << >>, cr |-> NoCRet, ev |-> NoEvent, ok |-> FALSE]

Apply(s) ==
    /\ connected_clients_' = s.clients
    /\ chat_rooms_' = s.rooms
    /\ client_info' = s.info
    /\ token_cache_' = s.cache
    /\ active_tokens_' = s.tokens
    /\ pc' = s.pc
    /\ pending' = s.pending
    /\ sent' = s.out
    /\ cret' = s.cr
    /\ last' = s.ev
    /\ ret' = NoRet
    /\ UNCHANGED <<users_, sys_now, issued, steady_now, roomVars>>

\* recv returned 0 or an error: handle_client closes, handle_foyer and
\* handle_room_chat return.
recv_failed(s, client_fd) ==
    LET E(ev) == Event(client_fd, ev, s.info[client_fd].current_room)
    IN IF s.pc[client_fd] = "auth"
       THEN [s EXCEPT !.pc[client_fd] = "closed", !.ev = E("recv_failed")]
       ELSE IF s.pc[client_fd] = "foyer"
       THEN after_foyer(s, client_fd, E("recv_failed"))
       ELSE after_room_chat(s, client_fd, E("recv_failed"))

Accept(fd) ==
    /\ pc[fd] = "closed"
    /\ Apply([Snapshot EXCEPT !.pc[fd] = "auth", !.ev = Event(fd, "accept", "")])

Handshake(fd, raw, reachable) ==
    /\ pc[fd] = "auth"
    /\ Apply(handshake(Snapshot, fd, raw, sys_now, reachable))

PeerClose(fd) ==
    /\ pc[fd] \in {"auth", "foyer", "room"}
    /\ Apply(recv_failed(Snapshot, fd))

FoyerMessage(fd, raw, reachable) ==
    /\ pc[fd] = "foyer"
    /\ WithinBudget(raw, {"CREATE_ROOM", "JOIN_ROOM"})
    /\ Apply(handle_foyer(Snapshot, fd, raw, steady_now, sys_now, reachable))

JoinCreated(fd) ==
    /\ pc[fd] = "joining"
    /\ Apply(join_created(Snapshot, fd))

RoomMessage(fd, raw, reachable) ==
    /\ pc[fd] = "room"
    /\ WithinBudget(raw, {"LEAVE", "QUIT", "CHAT_MESSAGE"})
    /\ Apply(handle_room_chat(Snapshot, fd, raw, steady_now, sys_now, reachable))

ChatIssue ==
    \/ "T1" \notin DOMAIN active_tokens_ /\ Authenticate("test", test123, "T1")
    \/ "T2" \notin DOMAIN active_tokens_ /\ Authenticate("bob", hunter2, "T2")

\* The authority revokes the token of the client on descriptor 4.
ChatRevoke == RevokeToken("T1")

ChatTickSteady == TickSteady(TOKEN_CACHE_SECONDS)

ChatAccept == \E fd \in FDs : Accept(fd)

ChatHandshake == \E fd \in FDs : \E raw \in Inputs(fd) : Handshake(fd, raw, TRUE)

ChatPeerClose == \E fd \in FDs : PeerClose(fd)

ChatFoyerMessage ==
    \E fd \in FDs : \E raw \in Inputs(fd) : FoyerMessage(fd, raw, TRUE)

ChatJoinCreated == \E fd \in FDs : JoinCreated(fd)

ChatRoomMessage ==
    \E fd \in FDs : \E raw \in Inputs(fd) : RoomMessage(fd, raw, TRUE)

Next ==
    \/ ChatIssue
    \/ ChatRevoke
    \/ ChatTickSteady
    \/ ChatAccept
    \/ ChatHandshake
    \/ ChatPeerClose
    \/ ChatFoyerMessage
    \/ ChatJoinCreated
    \/ ChatRoomMessage

Spec == Init /\ [][Next]_vars

-----------------------------------------------------------------------------
(* The chat server while every issued token stays valid: no revocation and *)
(* no time passing, so that longer room histories can be explored.         *)

\* The clients send at most MaxRoomHistory messages that are broadcast.
WithinRoomBudget(raw, broadcasting) ==
    \/ ~raw.json
    \/ raw.type \notin broadcasting
    \/ TotalHistory(chat_rooms_, DOMAIN chat_rooms_) < MaxRoomHistory

RoomsFoyerMessage ==
    \E fd \in FDs : \E raw \in Inputs(fd) :
        /\ pc[fd] = "foyer"
        /\ WithinRoomBudget(raw, {"CREATE_ROOM", "JOIN_ROOM"})
        /\ Apply(handle_foyer(Snapshot, fd, raw, steady_now, sys_now, TRUE))

RoomsRoomMessage ==
    \E fd \in FDs : \E raw \in Inputs(fd) :
        /\ pc[fd] = "room"
        /\ WithinRoomBudget(raw, {"LEAVE", "QUIT", "CHAT_MESSAGE"})
        /\ Apply(handle_room_chat(Snapshot, fd, raw, steady_now, sys_now, TRUE))

NextRooms ==
    \/ ChatIssue
    \/ ChatAccept
    \/ ChatHandshake
    \/ ChatPeerClose
    \/ RoomsFoyerMessage
    \/ ChatJoinCreated
    \/ RoomsRoomMessage

SpecRooms == Init /\ [][NextRooms]_vars

-----------------------------------------------------------------------------
(* Connecting: the handshake of handle_client against an authority whose   *)
(* tokens are issued, revoked and expire while other clients are in the    *)
(* foyer or have joined a room.                                            *)

\* In the foyer a client asks to join "General".
HandshakeJoin ==
    \E fd \in FDs : \E t \in PresentedTokens(fd) :
        FoyerMessage(fd, Envelope(t, "JOIN_ROOM", "General", << >>), TRUE)

NextHandshake ==
    \/ ChatIssue
    \/ ChatRevoke
    \/ CacheTickSys
    \/ ChatAccept
    \/ ChatHandshake
    \/ ChatPeerClose
    \/ HandshakeJoin

SpecHandshake == Init /\ [][NextHandshake]_vars

-----------------------------------------------------------------------------
(* Sessions and the authority: two connections whose messages may carry    *)
(* either token, their own or the other session's, while the authority     *)
(* revokes a token or cannot be reached.                                   *)

AnyToken == {"T1", "T2"}

SessionRequests ==
    {Envelope(t, "JOIN_ROOM", "General", << >>) : t \in AnyToken}
        \cup {Envelope(t, "LEAVE", "", << >>) : t \in AnyToken}
        \cup {Envelope(t, "CHAT_MESSAGE", "", m) : t \in AnyToken, m \in Texts}

SessionHandshake ==
    \E fd \in FDs :
        Handshake(fd, Envelope(IF fd = 4 THEN "T1" ELSE "T2", "AUTH", "", << >>), TRUE)

SessionFoyerMessage ==
    \E fd \in FDs : \E raw \in SessionRequests : \E reachable \in BOOLEAN :
        FoyerMessage(fd, raw, reachable)

SessionRoomMessage ==
    \E fd \in FDs : \E raw \in SessionRequests : \E reachable \in BOOLEAN :
        RoomMessage(fd, raw, reachable)

NextSession ==
    \/ ChatIssue
    \/ ChatRevoke
    \/ ChatTickSteady
    \/ ChatAccept
    \/ SessionHandshake
    \/ SessionFoyerMessage
    \/ SessionRoomMessage

SpecSession == Init /\ [][NextSession]_vars

-----------------------------------------------------------------------------
(* One room's history: messages are added to General, by add_message and   *)
(* by broadcast_message, and replayed by send_history_to_client.  The k-th *)
(* message added carries the number k.                                     *)

NumberedMessage(k) == create_broadcast_message(SERVER, <<ToString(k)>>)

HistoryStep(fd, ev) ==
    /\ last' = Event(fd, ev, "General")
    /\ ret' = NoRet
    /\ cret' = NoCRet
    /\ UNCHANGED <<authVars, cacheVars, connected_clients_, client_info, pc, pending,
                   room_mutex_, bstate, received, lockVars, queueVars, clientVars, joinVars>>

HistoryAddClient(fd) ==
    /\ ~has_client(chat_rooms_["General"], fd)
    /\ chat_rooms_' = [chat_rooms_ EXCEPT
                          !["General"] = add_client(@, fd, IF fd = 4 THEN TestUser ELSE Bob)]
    /\ sent' = << >>
    /\ total_added' = total_added
    /\ HistoryStep(fd, "add_client")

HistoryAddMessage ==
    /\ total_added < MaxAdded
    /\ chat_rooms_' = [chat_rooms_ EXCEPT
                          !["General"] = add_message(@, NumberedMessage(total_added + 1))]
    /\ sent' = << >>
    /\ total_added' = total_added + 1
    /\ HistoryStep(0, "add_message")

HistoryBroadcast(sender_fd) ==
    /\ total_added < MaxAdded
    /\ LET b == broadcast_message(chat_rooms_["General"], NumberedMessage(total_added + 1), sender_fd)
       IN /\ chat_rooms_' = [chat_rooms_ EXCEPT !["General"] = b.room]
          /\ sent' = b.out
    /\ total_added' = total_added + 1
    /\ HistoryStep(sender_fd, "broadcast_message")

HistoryReplay(client_fd) ==
    /\ sent' = send_history_to_client(chat_rooms_["General"], client_fd)
    /\ UNCHANGED <<chat_rooms_, total_added>>
    /\ HistoryStep(client_fd, "send_history_to_client")

HistoryJoin == \E fd \in FDs : HistoryAddClient(fd)

HistorySend == \E sender_fd \in FDs : HistoryBroadcast(sender_fd)

HistoryRead == \E client_fd \in FDs : HistoryReplay(client_fd)

NextHistory ==
    \/ HistoryJoin
    \/ HistoryAddMessage
    \/ HistorySend
    \/ HistoryRead

SpecHistory == Init /\ [][NextHistory]_vars

-----------------------------------------------------------------------------
(* ChatRoom::broadcast_message step by step: the threads of descriptors 4  *)
(* and 5 broadcast in General, whose members are OrderMembers.  A thread   *)
(* takes room_mutex_, appends to the history, sends to each member in      *)
(* turn, and releases the mutex on return.                                 *)

\* std::lock_guard<std::mutex> lock(room_mutex_) can be constructed.
room_mutex_ignored(mutex) == TRUE

room_mutex_free(mutex) == mutex = 0

InitOrder ==
    /\ users_ = MapPut(MapPut(EmptyMap, "test", User("test", hash_password(test123), TestUser)),
                       "bob", User("bob", hash_password(hunter2), Bob))
    /\ active_tokens_ = EmptyMap
    /\ sys_now = 0
    /\ issued = EmptyMap
    /\ token_cache_ = EmptyMap
    /\ steady_now = 0
    /\ connected_clients_ = [i \in 1..Len(OrderMembers) |->
                               ClientInfo(OrderMembers[i].fd, OrderMembers[i].name, "")]
    /\ chat_rooms_ = MapPut(EmptyMap, "General", [NewChatRoom EXCEPT !.clients = OrderMembers])
    /\ client_info = [fd \in FDs |-> [name |-> IF fd = 4 THEN TestUser ELSE Bob,
                                      current_room |-> "General", token |-> ""]]
    /\ pc = [fd \in FDs |-> "room"]
    /\ pending = [fd \in FDs |-> ""]
    /\ ret = NoRet
    /\ cret = NoCRet
    /\ last = NoEvent
    /\ sent = << >>
    /\ total_added = 0
    /\ room_mutex_ = 0
    /\ bstate = [w \in FDs |-> NotBroadcasting]
    /\ received = [fd \in OrderFDs |-> << >>]
    /\ InitLocks
    /\ InitQueue
    /\ InitClient
    /\ jstate = [w \in JoinThreads |-> NotJoining]

\* The message thread w is broadcasting: its n-th.
OrderMessage(w) == create_broadcast_message(client_info[w].name, <<ToString(bstate[w].n)>>)

OrderStep(w, ev) ==
    /\ last' = Event(w, ev, "General")
    /\ ret' = NoRet
    /\ cret' = NoCRet
    /\ UNCHANGED <<authVars, cacheVars, connected_clients_, client_info, pc, pending,
                   total_added, lockVars, queueVars, clientVars, joinVars>>

\* The call, up to the construction of the lock_guard.
BroadcastLock(w) ==
    /\ bstate[w].pc = "idle"
    /\ bstate[w].n < MaxBroadcasts
    /\ room_mutex_free(room_mutex_)
    /\ room_mutex_' = w
    /\ bstate' = [bstate EXCEPT ![w] = [pc |-> "append", n |-> @.n + 1, idx |-> 0]]
    /\ sent' = << >>
    /\ UNCHANGED <<chat_rooms_, received>>
    /\ OrderStep(w, "lock")

BroadcastAppend(w) ==
    /\ bstate[w].pc = "append"
    /\ chat_rooms_' = [chat_rooms_ EXCEPT !["General"] = add_message(@, OrderMessage(w))]
    /\ bstate' = [bstate EXCEPT ![w].pc = "send", ![w].idx = 1]
    /\ sent' = << >>
    /\ UNCHANGED <<room_mutex_, received>>
    /\ OrderStep(w, "append")

\* One turn of the loop over clients_.
BroadcastSend(w) ==
    /\ bstate[w].pc = "send"
    /\ bstate[w].idx <= Len(chat_rooms_["General"].clients)
    /\ LET client == chat_rooms_["General"].clients[bstate[w].idx]
           out == IF client.fd # w
                  THEN <<[to |-> client.fd, msg |-> Broadcast(OrderMessage(w))]>>
                  ELSE << >>
       IN /\ sent' = out
          /\ received' = IF client.fd # w
                         THEN [received EXCEPT ![client.fd] = Append(@, OrderMessage(w))]
                         ELSE received
    /\ bstate' = [bstate EXCEPT ![w].idx = @ + 1]
    /\ UNCHANGED <<chat_rooms_, room_mutex_>>
    /\ OrderStep(w, "send")

\* The return, which destroys the lock_guard.
BroadcastReturn(w) ==
    /\ bstate[w].pc = "send"
    /\ bstate[w].idx > Len(chat_rooms_["General"].clients)
    /\ room_mutex_' = 0
    /\ bstate' = [bstate EXCEPT ![w].pc = "idle", ![w].idx = 0]
    /\ sent' = << >>
    /\ UNCHANGED <<chat_rooms_, received>>
    /\ OrderStep(w, "return")

OrderLock == \E w \in FDs : BroadcastLock(w)

OrderAppend == \E w \in FDs : BroadcastAppend(w)

OrderSend == \E w \in FDs : BroadcastSend(w)

OrderReturn == \E w \in FDs : BroadcastReturn(w)

NextOrder ==
    \/ OrderLock
    \/ OrderAppend
    \/ OrderSend
    \/ OrderReturn

SpecOrder == InitOrder /\ [][NextOrder]_vars

-----------------------------------------------------------------------------
(* Two worker threads running handlers, one lock, unlock, send or request  *)
(* at a time.  A thread that asks for a mutex another thread holds waits.  *)

LockStep ==
    /\ ret' = NoRet
    /\ cret' = NoCRet
    /\ NoWorkerStep
    /\ UNCHANGED <<authVars, cacheVars, connected_clients_, chat_rooms_, client_info, pc,
                   pending, total_added, room_mutex_, bstate, received, queueVars, clientVars, joinVars>>

mutex_free(m) == \A v \in FDs : m \notin held[v]

\* recv returns and the worker starts on what the message asks for.
LockBegin ==
    \E w \in FDs : \E p \in HandlerPrograms :
        /\ prog[w] = << >>
        /\ prog' = [prog EXCEPT ![w] = p]
        /\ UNCHANGED held
        /\ LockStep

LockAcquire ==
    \E w \in FDs :
        /\ prog[w] # << >>
        /\ Head(prog[w]).op = "lock"
        /\ mutex_free(Head(prog[w]).arg)
        /\ held' = [held EXCEPT ![w] = @ \cup {Head(prog[w]).arg}]
        /\ prog' = [prog EXCEPT ![w] = Tail(@)]
        /\ LockStep

LockRelease ==
    \E w \in FDs :
        /\ prog[w] # << >>
        /\ Head(prog[w]).op = "unlock"
        /\ held' = [held EXCEPT ![w] = @ \ {Head(prog[w]).arg}]
        /\ prog' = [prog EXCEPT ![w] = Tail(@)]
        /\ LockStep

\* A send to a client, or a request to the authority and its answer.
LockSend ==
    \E w \in FDs :
        /\ prog[w] # << >>
        /\ Head(prog[w]).op \in {"send", "request"}
        /\ prog' = [prog EXCEPT ![w] = Tail(@)]
        /\ UNCHANGED held
        /\ LockStep

NextLocks ==
    \/ LockBegin
    \/ LockAcquire
    \/ LockRelease
    \/ LockSend

SpecLocks == Init /\ [][NextLocks]_vars

-----------------------------------------------------------------------------
(* One ThreadSafeQueue shared by two producer and two consumer threads and *)
(* a thread that may stop it.  The k-th item producer p pushes is 10p + k. *)

QueueStep ==
    /\ ret' = NoRet
    /\ cret' = NoCRet
    /\ NoWorkerStep
    /\ UNCHANGED <<authVars, cacheVars, connected_clients_, chat_rooms_, client_info, pc,
                   pending, total_added, room_mutex_, bstate, received, lockVars, clientVars, joinVars>>

PushedBy(p) == Len(SelectSeq(pushed, LAMBDA x : x.by = p))

\* The return of a dequeue call with result r.
Dequeued(op, c, r, waited) ==
    /\ queue_' = r.queue
    /\ popped' = IF r.result THEN Append(popped, [item |-> r.item, by |-> c]) ELSE popped
    /\ qlast' = QCall(op, c, r.result, r.item, waited)
    /\ qpc' = [qpc EXCEPT ![c] = "idle"]
    /\ UNCHANGED <<stopped_, pushed>>

\* The call blocks in the condition variable's wait, the mutex released.
Waits(op, c) ==
    /\ qpc' = [qpc EXCEPT ![c] = op]
    /\ qlast' = NoQCall
    /\ UNCHANGED <<queue_, stopped_, pushed, popped>>

QueuePush ==
    \E p \in Producers :
        /\ PushedBy(p) < MaxPushes
        /\ LET item == 10 * p + PushedBy(p) + 1
           IN /\ queue_' = push(queue_, stopped_, item)
              /\ pushed' = Append(pushed, [item |-> item, by |-> p, accepted |-> ~stopped_])
              /\ qlast' = QCall("push", p, TRUE, item, FALSE)
        /\ UNCHANGED <<stopped_, qpc, popped>>
        /\ QueueStep

\* pop is called: it returns at once when the predicate holds, else waits.
QueuePop ==
    \E c \in Consumers :
        /\ qpc[c] = "idle"
        /\ IF wait_predicate(queue_, stopped_)
           THEN Dequeued("pop", c, pop(queue_, stopped_), FALSE)
           ELSE Waits("pop", c)
        /\ QueueStep

\* A waiting pop is woken (notify_one, notify_all or spuriously) and finds
\* the predicate true.
PopWake(c) ==
    /\ qpc[c] = "pop"
    /\ wait_predicate(queue_, stopped_)
    /\ Dequeued("pop", c, pop(queue_, stopped_), TRUE)
    /\ QueueStep

QueuePopWake == \E c \in Consumers : PopWake(c)

QueueTryPop ==
    \E c \in Consumers :
        /\ qpc[c] = "idle"
        /\ IF wait_predicate(queue_, stopped_)
           THEN Dequeued("try_pop", c, try_pop(queue_, stopped_, TRUE), FALSE)
           ELSE Waits("try_pop", c)
        /\ QueueStep

QueueTryPopWake ==
    \E c \in Consumers :
        /\ qpc[c] = "try_pop"
        /\ wait_predicate(queue_, stopped_)
        /\ Dequeued("try_pop", c, try_pop(queue_, stopped_, TRUE), TRUE)
        /\ QueueStep

\* The timeout passes with the predicate still false.
QueueTryPopTimeout ==
    \E c \in Consumers :
        /\ qpc[c] = "try_pop"
        /\ ~wait_predicate(queue_, stopped_)
        /\ Dequeued("try_pop", c, try_pop(queue_, stopped_, FALSE), TRUE)
        /\ QueueStep

QueueTryPopImmediate ==
    \E c \in Consumers :
        /\ qpc[c] = "idle"
        /\ Dequeued("try_pop_immediate", c, try_pop_immediate(queue_, stopped_), FALSE)
        /\ QueueStep

QueueStop ==
    /\ stopped_' = TRUE
    /\ qlast' = QCall("stop", 0, TRUE, NoItem, FALSE)
    /\ UNCHANGED <<queue_, qpc, pushed, popped>>
    /\ QueueStep

NextQueue ==
    \/ QueuePush
    \/ QueuePop
    \/ QueuePopWake
    \/ QueueTryPop
    \/ QueueTryPopWake
    \/ QueueTryPopTimeout
    \/ QueueTryPopImmediate
    \/ QueueStop

SpecQueue == Init /\ [][NextQueue]_vars

\* stop() calls cv_.notify_all() and push calls cv_.notify_one() while the
\* predicate holds, so a waiting pop that can return is scheduled and does.
SpecQueueLive == Init /\ [][NextQueue]_vars /\ \A c \in Consumers : WF_vars(PopWake(c))

-----------------------------------------------------------------------------
(* Claims about the authority (SpecAuth)                                   *)

\* C1: a token issued by a successful authenticate and not revoked is
\* reported valid by validate_token at every time up to and including its
\* expires_at, and invalid at every later time, with no revoke needed and
\* whether or not the entry is still in active_tokens_.
C1_ValidUntilExpiry ==
    \A t \in DOMAIN issued :
        (ret.op = "validate_token" /\ ret.token = t) => (ret.ok = (sys_now <= issued[t]))

\* C1 witness: validate_token has just refused a token that no one revoked,
\* because its expiry time has passed.
C1_Witness ==
    /\ ret.op = "validate_token"
    /\ ret.token \in DOMAIN issued
    /\ sys_now > issued[ret.token]
    /\ ~ret.ok

\* C2: authenticate returns an invalid token and leaves active_tokens_
\* unchanged when the user is unknown or the password's hash differs from the
\* stored one; an entry of active_tokens_ appears or changes only in a
\* successful authenticate, and is the token that call returned.
C2_FailedAuthenticateIssuesNothing ==
    [][ /\ ( /\ ret'.op = "authenticate"
             /\ \/ ret'.user \notin DOMAIN users_
                \/ users_[ret'.user].password_hash # hash_password(ret'.password) )
           => (~ret'.ok /\ active_tokens_' = active_tokens_)
        /\ \A t \in Tokens :
              ( /\ t \in DOMAIN active_tokens_'
                /\ \/ t \notin DOMAIN active_tokens_
                   \/ active_tokens_'[t] # active_tokens_[t] )
              => (ret'.op = "authenticate" /\ ret'.ok /\ ret'.token = t)
      ]_vars

\* C2 witness: an existing user has just been refused (wrong password) while
\* other tokens are active.
C2_Witness ==
    /\ ret.op = "authenticate"
    /\ ~ret.ok
    /\ ret.user \in DOMAIN users_
    /\ DOMAIN active_tokens_ # {}

-----------------------------------------------------------------------------
(* Claims about the token validation cache (SpecCache)                     *)

\* C3: a cache check answers true without asking the authority, and leaves
\* the cache (and the authority) as they are, when the token has an entry
\* less than 30 s old; otherwise it asks the authority, returns its answer,
\* and writes the entry with the time of the check only when the answer is
\* yes.  So a token validated at t=0 and since revoked is trusted at t=10
\* and refused at t=35.
C3_CacheCheck ==
    /\ [][ cret'.op = "validate_token" =>
             LET t == cret'.token
                 fresh == t \in DOMAIN token_cache_ /\ steady_now - token_cache_[t] < 30
                 answer == /\ cret'.reachable
                           /\ t \in DOMAIN active_tokens_
                           /\ sys_now <= active_tokens_[t].expires_at
             IN IF fresh
                THEN /\ cret'.result
                     /\ ~cret'.contacted
                     /\ token_cache_' = token_cache_
                     /\ active_tokens_' = active_tokens_
                ELSE /\ cret'.contacted
                     /\ cret'.result = answer
                     /\ token_cache_' = IF answer THEN MapPut(token_cache_, t, steady_now)
                                        ELSE token_cache_
         ]_vars
    /\ []( ( /\ cret.op = "validate_token"
             /\ cret.token \in DOMAIN token_cache_
             /\ token_cache_[cret.token] = 0
             /\ cret.token \notin DOMAIN active_tokens_ )
           => /\ steady_now = 10 => cret.result
              /\ steady_now = 35 => ~cret.result )

\* C3 witness: at t=10 the cache has just trusted, without asking, a token
\* validated at t=0 that the authority no longer holds.
C3_Witness ==
    /\ cret.op = "validate_token"
    /\ cret.result
    /\ ~cret.contacted
    /\ cret.token \in DOMAIN token_cache_
    /\ token_cache_[cret.token] = 0
    /\ cret.token \notin DOMAIN active_tokens_
    /\ steady_now = 10

\* C4: a failed validation is never cached: a check that returns false leaves
\* the whole cache as it was, and the cache changes only in a check that
\* asked the authority and got yes, and then only in that token's entry,
\* which becomes the time of the check.
C4_FailureNeverCached ==
    [][ /\ (cret'.op = "validate_token" /\ ~cret'.result) => token_cache_' = token_cache_
        /\ token_cache_' # token_cache_ =>
              /\ cret'.op = "validate_token"
              /\ cret'.result
              /\ cret'.contacted
              /\ token_cache_' = MapPut(token_cache_, cret'.token, steady_now)
      ]_vars

\* C4 witness: the authority has just refused a token whose stale entry is
\* still in the cache, with its old timestamp.
C4_Witness ==
    /\ cret.op = "validate_token"
    /\ ~cret.result
    /\ cret.contacted
    /\ cret.reachable
    /\ cret.token \in DOMAIN token_cache_
    /\ steady_now - token_cache_[cret.token] >= 30

-----------------------------------------------------------------------------
(* Claims about the chat server's connection workers (Spec)                *)

\* C5: when recv fails on a connection that is in a room, the worker takes
\* the client out of that room's member list, sends every remaining member a
\* leave notice and a PARTICIPANT_LIST, and removes the client from the
\* registry, and no other room changes.
C5_AbruptCloseLeavesRoom ==
    [][ (last'.ev = "recv_failed" /\ last'.room \in DOMAIN chat_rooms_) =>
          LET fd == last'.fd
              room == chat_rooms_'[last'.room]
              got(to, type) == \E k \in 1..Len(sent') :
                                  sent'[k].to = to /\ sent'[k].msg.type = type
          IN /\ ~has_client(room, fd)
             /\ \A i \in 1..Len(room.clients) :
                   /\ got(room.clients[i].fd, "BROADCAST:MESSAGE")
                   /\ got(room.clients[i].fd, "PARTICIPANT_LIST")
             /\ \A i \in 1..Len(connected_clients_') : connected_clients_'[i].fd # fd
             /\ \A n \in DOMAIN chat_rooms_ \ {last'.room} : chat_rooms_'[n] = chat_rooms_[n]
      ]_vars

\* C6: a connection whose worker has exited is neither in the client
\* registry nor in the member list of any room.
C6_ExitedWorkerIsNowhere ==
    \A fd \in FDs :
        pc[fd] = "closed" =>
            /\ \A i \in 1..Len(connected_clients_) : connected_clients_[i].fd # fd
            /\ \A n \in DOMAIN chat_rooms_ : ~has_client(chat_rooms_[n], fd)

\* C7: every message a worker receives in the foyer or in a room is answered
\* only after a token check whose result is that of the cache (an entry less
\* than 30 s old) or else of the authority; when the check fails nothing but
\* the ERROR "Invalid or expired token" is sent, no room, pending creation or
\* other session changes, and the worker leaves the registry and closes.
C7_TokenCheckedBeforeEveryAction ==
    [][ \A fd \in FDs :
          ( /\ pc[fd] \in {"foyer", "room"}
            /\ last'.fd = fd
            /\ last'.ev # "recv_failed" ) =>
          LET t == cret'.token
              fresh == /\ t \in DOMAIN token_cache_
                       /\ steady_now - token_cache_[t] < TOKEN_CACHE_SECONDS
              answer == /\ t \in DOMAIN active_tokens_
                        /\ sys_now <= active_tokens_[t].expires_at
          IN /\ cret'.op = "validate_token"
             /\ cret'.result = (fresh \/ answer)
             /\ last'.ev \in {"create_ok", "create_exists", "join_ok", "join_not_found",
                              "refresh", "leave", "chat", "quit", "ignored"}
                   => cret'.result
             /\ ~cret'.result =>
                   /\ last'.ev = "token_rejected"
                   /\ sent' = <<[to |-> fd, msg |-> create_error("Invalid or expired token")]>>
                   /\ pc'[fd] = "closed"
                   /\ connected_clients_' = ClientManager_remove_client(connected_clients_, fd)
                   /\ chat_rooms_' = chat_rooms_
                   /\ pending' = pending
                   /\ token_cache_' = token_cache_
                   /\ \A g \in FDs \ {fd} : pc'[g] = pc[g] /\ client_info'[g] = client_info[g]
      ]_vars

\* C7 witness: a client chatting in General presented the token it logged in
\* with; the authority, asked because the cache entry was stale, refused it,
\* and the worker sent the error and closed.
C7_Witness ==
    /\ last.ev = "token_rejected"
    /\ last.room = "General"
    /\ cret.op = "validate_token"
    /\ cret.token = "T1"
    /\ cret.contacted
    /\ ~cret.result
    /\ "T1" \in DOMAIN token_cache_
    /\ pc[last.fd] = "closed"
    /\ Len(sent) = 1

\* C8: a QUIT in the foyer or in a room takes the client out of its room,
\* sends it an acknowledgment, and ends the session: the worker leaves the
\* registry and closes the connection.
C8_QuitDisconnects ==
    [][ last'.ev = "quit" =>
          LET fd == last'.fd
          IN /\ \A n \in DOMAIN chat_rooms_' : ~has_client(chat_rooms_'[n], fd)
             /\ \E k \in 1..Len(sent') : sent'[k].to = fd
             /\ pc'[fd] = "closed"
             /\ \A i \in 1..Len(connected_clients_') : connected_clients_'[i].fd # fd
      ]_vars

\* C9: in the foyer or in a room, a message that does not parse (the check
\* is then made on the empty token) or whose type the state does not handle
\* is answered with an ERROR, and the worker stays where it is with the
\* registry and the rooms unchanged; in the handshake such a message closes
\* the connection.
C9_BadMessageGetsErrorAndStays ==
    [][ /\ \A fd \in FDs :
             ( /\ pc[fd] \in {"foyer", "room"}
               /\ last'.fd = fd
               /\ \/ last'.ev = "ignored"
                  \/ cret'.op = "validate_token" /\ cret'.token = "" ) =>
             /\ \E k \in 1..Len(sent') : sent'[k].to = fd /\ sent'[k].msg.type = "ERROR"
             /\ pc'[fd] = pc[fd]
             /\ connected_clients_' = connected_clients_
             /\ chat_rooms_' = chat_rooms_
        /\ last'.ev = "auth_not_auth" => pc'[last'.fd] = "closed"
      ]_vars

\* C10: a CREATE_ROOM succeeds only for a name no room has, and then adds
\* exactly one new, empty room of that name; for a name that is taken it
\* changes no room, answers ERROR "Room already exists" and leaves the
\* worker in the foyer; no room is ever removed or replaced by a creation,
\* so of several CREATE_ROOMs for one unused name exactly the first succeeds.
C10_RoomNamesUnique ==
    [][ /\ last'.ev = "create_ok" =>
             /\ last'.room \notin DOMAIN chat_rooms_
             /\ chat_rooms_' = MapPut(chat_rooms_, last'.room, NewChatRoom)
             /\ pc'[last'.fd] = "joining"
        /\ last'.ev = "create_exists" =>
             /\ last'.room \in DOMAIN chat_rooms_
             /\ chat_rooms_' = chat_rooms_
             /\ pc[last'.fd] = "foyer"
             /\ pc'[last'.fd] = "foyer"
             /\ sent' = <<[to |-> last'.fd, msg |-> create_error("Room already exists")]>>
        /\ \A fd \in FDs :
             (pc[fd] = "foyer" /\ last'.fd = fd /\ last'.ev \notin {"create_ok", "create_exists"})
                => DOMAIN chat_rooms_' = DOMAIN chat_rooms_
        /\ DOMAIN chat_rooms_ \subseteq DOMAIN chat_rooms_'
      ]_vars

\* C10 witness: two clients asked to create r1; the first has created it and
\* has not yet joined it, the second has just been told that it exists and
\* is still in the foyer.
C10_Witness ==
    /\ last.ev = "create_exists"
    /\ last.room = "r1"
    /\ pc[last.fd] = "foyer"
    /\ \E g \in FDs \ {last.fd} : pc[g] = "joining" /\ pending[g] = "r1"
    /\ chat_rooms_["r1"] = NewChatRoom

\* C11: the join_room that follows a successful create_room always succeeds:
\* after it the creator is in the new room's member list, has been sent
\* ROOM_JOINED for that name, and its worker is in handle_room_chat with
\* current_room set to that name.
C11_CreatorAutoJoins ==
    [][ /\ last'.ev = "created_joined" =>
             LET fd == last'.fd
                 name == last'.room
             IN /\ pc[fd] = "joining"
                /\ pending[fd] = name
                /\ name \in DOMAIN chat_rooms_'
                /\ has_client(chat_rooms_'[name], fd)
                /\ \E k \in 1..Len(sent') :
                      sent'[k] = [to |-> fd, msg |-> create_room_joined(name)]
                /\ pc'[fd] = "room"
                /\ client_info'[fd].current_room = name
        /\ last'.ev # "created_not_joined"
        /\ \A fd \in FDs : (pc[fd] = "joining" /\ pc'[fd] # "joining")
                              => (last'.fd = fd /\ last'.ev = "created_joined")
      ]_vars

\* C11 witness: the client on descriptor 5 has just been joined to r1, the
\* room it created, and is its only member.
C11_Witness ==
    /\ last = Event(5, "created_joined", "r1")
    /\ pc[5] = "room"
    /\ get_client_fds(chat_rooms_["r1"]) = <<5>>
    /\ client_info[5].current_room = "r1"

\* C12: a JOIN_ROOM for a name no room has sends ERROR "Room not found" to
\* the requester and nothing to anyone else, leaves its worker in the foyer
\* with an empty current_room, and changes no room and not the set of rooms;
\* a JOIN_ROOM succeeds only for a room that exists.
C12_JoinMissingRoom ==
    [][ /\ last'.ev = "join_not_found" =>
             LET fd == last'.fd
             IN /\ last'.room \notin DOMAIN chat_rooms_
                /\ sent' = <<[to |-> fd, msg |-> create_error("Room not found")]>>
                /\ pc[fd] = "foyer"
                /\ pc'[fd] = "foyer"
                /\ client_info'[fd].current_room = ""
                /\ chat_rooms_' = chat_rooms_
                /\ connected_clients_' = connected_clients_
        /\ last'.ev = "join_ok" => last'.room \in DOMAIN chat_rooms_
      ]_vars

\* C12 witness: a client asked for r1, which does not exist, while another
\* client is a member of General.
C12_Witness ==
    /\ last.ev = "join_not_found"
    /\ last.room = "r1"
    /\ "r1" \notin DOMAIN chat_rooms_
    /\ pc[last.fd] = "foyer"
    /\ \E g \in FDs \ {last.fd} : pc[g] = "room" /\ has_client(chat_rooms_["General"], g)

\* C13: a LEAVE in a room takes the client out of the room's member list,
\* sends it LEFT_ROOM, clears its current_room and puts its worker back in
\* handle_foyer, which sends it the room list again; the client registry is
\* unchanged.
C13_LeaveReturnsToFoyer ==
    [][ last'.ev = "leave" =>
          LET fd == last'.fd
              room_list == [to |-> fd, msg |-> create_room_list(room_names(chat_rooms_'))]
          IN /\ pc[fd] = "room"
             /\ client_info[fd].current_room = last'.room
             /\ ~has_client(chat_rooms_'[last'.room], fd)
             /\ \E k \in 1..Len(sent') :
                   /\ sent'[k].to = fd
                   /\ sent'[k].msg.type = "LEFT_ROOM"
             /\ pc'[fd] = "foyer"
             /\ client_info'[fd].current_room = ""
             /\ sent'[Len(sent')] = room_list
             /\ connected_clients_' = connected_clients_
             /\ \E i \in 1..Len(connected_clients_') : connected_clients_'[i].fd = fd
      ]_vars

\* C13 witness: a client has just left General, where another member
\* remains, and is back in the foyer.
C13_Witness ==
    /\ last.ev = "leave"
    /\ last.room = "General"
    /\ pc[last.fd] = "foyer"
    /\ \E g \in FDs \ {last.fd} : pc[g] = "room" /\ has_client(chat_rooms_["General"], g)

\* C14: when a client leaves a room by LEAVE, every member that remains is
\* sent the leave notice and a PARTICIPANT_LIST of the remaining members,
\* which does not name the leaver.
C14_LeaveNotifiesRemainingMembers ==
    [][ last'.ev = "leave" =>
          LET fd == last'.fd
              room == chat_rooms_'[last'.room]
              notice == Broadcast(create_broadcast_message(SERVER,
                                      LeftText(client_info[fd].name)))
              members == create_participant_list(get_client_names(room))
          IN \A i \in 1..Len(room.clients) :
                /\ \E k \in 1..Len(sent') :
                      sent'[k] = [to |-> room.clients[i].fd, msg |-> notice]
                /\ \E k \in 1..Len(sent') :
                      sent'[k] = [to |-> room.clients[i].fd, msg |-> members]
      ]_vars

\* C15: after a client joins a room, by JOIN_ROOM or as the creator of the
\* room, it is in the member list, and every entry of the member list, the
\* joiner's included, is sent a PARTICIPANT_LIST with the names of all the
\* entries.
C15_JoinSendsMemberList ==
    [][ last'.ev \in {"join_ok", "created_joined"} =>
          LET fd == last'.fd
              room == chat_rooms_'[last'.room]
              members == create_participant_list(get_client_names(room))
          IN /\ \E i \in 1..Len(room.clients) :
                   room.clients[i] = [fd |-> fd, name |-> client_info'[fd].name]
             /\ \A i \in 1..Len(room.clients) :
                   /\ \E k \in 1..Len(sent') :
                         sent'[k] = [to |-> room.clients[i].fd, msg |-> members]
                   /\ \E n \in 1..Len(members.list) : members.list[n] = room.clients[i].name
      ]_vars

\* C15 witness: Bob has just joined General, where Test User already was;
\* both descriptors were sent the list <<Test User, Bob>>.
C15_Witness ==
    /\ last = Event(5, "join_ok", "General")
    /\ get_client_fds(chat_rooms_["General"]) = <<4, 5>>
    /\ pc[4] = "room"
    /\ \A fd \in {4, 5} :
          \E k \in 1..Len(sent) :
             sent[k] = [to |-> fd, msg |-> create_participant_list(<<TestUser, Bob>>)]

\* C16: in a step that broadcasts the room list (a join, a creator's join, a
\* LEAVE, a QUIT in a room), the connections that are sent a ROOM_LIST are
\* exactly the registered clients whose session is in no room.
C16_DirectoryGoesToFoyerOnly ==
    [][ ( \/ last'.ev \in {"join_ok", "created_joined", "leave"}
          \/ last'.ev = "quit" /\ last'.room # "" ) =>
          \A fd \in FDs :
             (\E k \in 1..Len(sent') : sent'[k].to = fd /\ sent'[k].msg.type = "ROOM_LIST")
             <=> ( /\ \E i \in 1..Len(connected_clients_') : connected_clients_'[i].fd = fd
                   /\ client_info'[fd].current_room = "" )
      ]_vars

\* C17: every call of broadcast_message (the join notice, the leave notice,
\* a CHAT_MESSAGE) appends its message to the history of the caller's room
\* and of no other room, and sends it to the members of that room other than
\* the sender: the connections reached are the room's descriptors without
\* the sender's, one fewer than the room's descriptors, and none of them is
\* a member of another room.
C17_BroadcastReachesOthersOnly ==
    [][ ( \/ last'.ev \in {"join_ok", "created_joined", "leave", "chat"}
          \/ last'.ev = "quit" /\ last'.room # "" ) =>
          LET fd == last'.fd
              before == chat_rooms_[last'.room]
              after == chat_rooms_'[last'.room]
              members == IF last'.ev \in {"join_ok", "created_joined"}
                         THEN after.clients ELSE before.clients
              fds == {members[i].fd : i \in 1..Len(members)}
              is_broadcast(m) == m.msg.type = "BROADCAST:MESSAGE"
              bsent == SelectSeq(sent', is_broadcast)
              reached == {bsent[k].to : k \in 1..Len(bsent)}
              message == after.chat_history_[Len(after.chat_history_)]
          IN /\ after.chat_history_ = Append(before.chat_history_, message)
             /\ \A k \in 1..Len(bsent) : bsent[k].msg = Broadcast(message)
             /\ reached = fds \ {fd}
             /\ Cardinality(reached) = Cardinality(fds) - 1
             /\ \A n \in DOMAIN chat_rooms_ \ {last'.room} :
                   /\ chat_rooms_'[n].chat_history_ = chat_rooms_[n].chat_history_
                   /\ \A g \in reached : ~has_client(chat_rooms_'[n], g)
      ]_vars

-----------------------------------------------------------------------------
(* Claims about one room's history (SpecHistory, SpecRooms)                *)

\* C18: after n messages have been added to a room, by add_message or by
\* broadcast_message, its history holds the last min(n, 100) of them in the
\* order they were added, never more than 100; adding the 101st drops the
\* first and nothing else, and a replay then no longer contains the first.
C18_HistoryKeepsLast100 ==
    LET h == chat_rooms_["General"].chat_history_
        n == total_added
        m == IF n < 100 THEN n ELSE 100
    IN /\ Len(h) <= 100
       /\ Len(h) = m
       /\ \A i \in 1..m : h[i] = NumberedMessage(n - m + i)
       /\ (last.ev = "send_history_to_client" /\ n > 100) =>
             /\ \A k \in 1..Len(sent) : sent[k].msg # NumberedMessage(1)
             /\ sent[2].msg = NumberedMessage(n - 99)

\* C18 witness: 101 messages have been added; the history holds messages 2
\* to 101 and has just been replayed.
C18_Witness ==
    /\ total_added = 101
    /\ Len(chat_rooms_["General"].chat_history_) = 100
    /\ chat_rooms_["General"].chat_history_[1] = NumberedMessage(2)
    /\ chat_rooms_["General"].chat_history_[100] = NumberedMessage(101)
    /\ last.ev = "send_history_to_client"
    /\ Len(sent) = 102

-----------------------------------------------------------------------------
(* Claims about concurrent broadcasts in one room (SpecOrder)              *)

\* C20: every message a member has been sent by broadcast_message is in the
\* room's history, each member is sent the messages in the order in which
\* they were appended to the history, and so any two members that were both
\* sent the same two messages were sent them in the same order.
C20_BroadcastsInOneOrder ==
    LET h == chat_rooms_["General"].chat_history_
        pos(seq, m) == CHOOSE i \in 1..Len(seq) : seq[i] = m
        has(seq, m) == \E i \in 1..Len(seq) : seq[i] = m
    IN /\ \A fd \in OrderFDs :
             /\ \A i \in 1..Len(received[fd]) : has(h, received[fd][i])
             /\ \A i, j \in 1..Len(received[fd]) :
                   i < j => pos(h, received[fd][i]) < pos(h, received[fd][j])
       /\ \A f, g \in OrderFDs :
             \A i, j \in 1..Len(received[f]) :
                ( /\ i < j
                  /\ has(received[g], received[f][i])
                  /\ has(received[g], received[f][j]) )
                => pos(received[g], received[f][i]) < pos(received[g], received[f][j])

\* C20 witness: thread 5 holds the room's mutex and has sent its message to
\* descriptor 6 but not yet to 7, while thread 4 has finished one broadcast
\* and may start another; 6 and 7 both got 4's message first.
C20_Witness ==
    /\ room_mutex_ = 5
    /\ bstate[5].pc = "send"
    /\ bstate[4] = [pc |-> "idle", n |-> 1, idx |-> 0]
    /\ Len(received[6]) = 2
    /\ Len(received[7]) = 1
    /\ received[6][1] = received[7][1]
    /\ received[6][1].sender = TestUser
    /\ received[6][2].sender = Bob


-----------------------------------------------------------------------------
(* C25: revoke(token) removes exactly that token.  After revoke_token(t)   *)
(* the active set is the old one without t: validate(t) is false and       *)
(* get_username, get_display_name and get_roles of t return nothing; every *)
(* other entry is the same record and validates as before; revoking a      *)
(* token that is not active changes nothing, and revoking again changes    *)
(* nothing.                                                                *)

C25_RevokeRemovesExactlyThatToken ==
    [][ret'.op = "revoke_token" =>
        LET t == ret'.token
        IN /\ t \notin DOMAIN active_tokens_'
           /\ ~AuthManager_validate_token(active_tokens_', t, sys_now').result
           /\ ~get_username(active_tokens_', t, sys_now').has
           /\ ~get_display_name(active_tokens_', t, sys_now').has
           /\ ~get_roles(active_tokens_', t, sys_now').has
           /\ DOMAIN active_tokens_' = DOMAIN active_tokens_ \ {t}
           /\ \A x \in DOMAIN active_tokens_' :
                  /\ active_tokens_'[x] = active_tokens_[x]
                  /\ AuthManager_validate_token(active_tokens_', x, sys_now').result
                       = AuthManager_validate_token(active_tokens_, x, sys_now).result
           /\ (t \notin DOMAIN active_tokens_ => active_tokens_' = active_tokens_)
           /\ revoke_token(active_tokens_', t) = active_tokens_'
           /\ users_' = users_]_vars

\* A revoke has just run, the revoked token was issued before and is gone,
\* and another token is still active and valid.
C25_Witness ==
    /\ ret.op = "revoke_token"
    /\ ret.token \notin DOMAIN active_tokens_
    /\ \E x \in DOMAIN active_tokens_ :
           /\ x # ret.token
           /\ AuthManager_validate_token(active_tokens_, x, sys_now).result

-----------------------------------------------------------------------------
(* C26: apart from revoke, an entry leaves the active token set only when  *)
(* it is expired.  validate_token, get_username, get_display_name and      *)
(* get_roles evict the looked-up entry exactly when it is expired, then    *)
(* report it absent, and touch no other entry; cleanup_expired_tokens      *)
(* removes every expired entry and no unexpired one; no other step removes *)
(* or alters an entry.                                                     *)

Lookups == {"validate_token", "get_username", "get_display_name", "get_roles"}

C26_OnlyExpiredEntriesLeave ==
    [][/\ \A x \in DOMAIN active_tokens_ \ DOMAIN active_tokens_' :
              \/ ret'.op = "revoke_token" /\ ret'.token = x
              \/ is_expired(active_tokens_[x], sys_now)
       /\ ret'.op \in Lookups =>
              LET t == ret'.token
              IN /\ \A x \in DOMAIN active_tokens_ \ {t} :
                        x \in DOMAIN active_tokens_' /\ active_tokens_'[x] = active_tokens_[x]
                 /\ DOMAIN active_tokens_' \subseteq DOMAIN active_tokens_
                 /\ t \in DOMAIN active_tokens_ =>
                        /\ (t \notin DOMAIN active_tokens_')
                             <=> is_expired(active_tokens_[t], sys_now)
                        /\ is_expired(active_tokens_[t], sys_now) => ~ret'.ok
                        /\ ~is_expired(active_tokens_[t], sys_now) =>
                               ret'.ok /\ active_tokens_'[t] = active_tokens_[t]
       /\ ret'.op = "cleanup_expired_tokens" =>
              /\ DOMAIN active_tokens_' =
                     {x \in DOMAIN active_tokens_ : ~is_expired(active_tokens_[x], sys_now)}
              /\ \A x \in DOMAIN active_tokens_' : active_tokens_'[x] = active_tokens_[x]]_vars

\* A cleanup has just run at a time when one issued token had expired and
\* another had not: the expired one is gone and the other is still there.
C26_Witness ==
    /\ ret.op = "cleanup_expired_tokens"
    /\ \E x \in DOMAIN issued : issued[x] < sys_now /\ x \notin DOMAIN active_tokens_
    /\ \E y \in DOMAIN active_tokens_ : ~is_expired(active_tokens_[y], sys_now)

-----------------------------------------------------------------------------
(* C27: register_user returns false when the username already exists and   *)
(* leaves the stored record unchanged; it returns true only when the       *)
(* username was absent, the record with the hash of the given password is  *)
(* then stored, a login with that password succeeds, and no later step     *)
(* removes or alters a stored user.                                        *)

C27_RegisterNeverOverwrites ==
    [][/\ \A u \in DOMAIN users_ : u \in DOMAIN users_' /\ users_'[u] = users_[u]
       /\ ret'.op = "register_user" =>
              LET u == ret'.user
              IN /\ ret'.ok <=> u \notin DOMAIN users_
                 /\ ~ret'.ok => users_' = users_
                 /\ ret'.ok =>
                        /\ DOMAIN users_' = DOMAIN users_ \cup {u}
                        /\ \E d \in DisplayNames :
                               users_'[u] = User(u, hash_password(ret'.password), d)
                        /\ \A tok \in Tokens :
                               authenticate(users_', active_tokens_', u, ret'.password,
                                            tok, sys_now').token.is_valid]_vars

\* A registration of "carol" has just been refused because an earlier one
\* succeeded: the record stored then is still there.
C27_Witness ==
    /\ ret.op = "register_user"
    /\ ret.user = "carol"
    /\ ~ret.ok
    /\ "carol" \in DOMAIN users_


-----------------------------------------------------------------------------
(* Claims about sessions and the room directory                            *)

\* C23: a session is in at most one room at a time: every connection is a
\* member of at most one room, and it is a member of room R exactly when its
\* session's current_room is R.
C23_AtMostOneRoom ==
    \A fd \in FDs :
        /\ Cardinality({n \in DOMAIN chat_rooms_ : has_client(chat_rooms_[n], fd)}) <= 1
        /\ \A n \in DOMAIN chat_rooms_ :
               has_client(chat_rooms_[n], fd) <=> client_info[fd].current_room = n

\* C24: a connection enters the foyer and the client registry only by a
\* handshake whose first message is an AUTH with a token the authority
\* accepts; every other end of the handshake (no data, another first message,
\* a token that is unknown, revoked or expired) closes the connection and
\* leaves the registry, every room and every other session as they were.
C24_FoyerOnlyAfterAcceptedAuth ==
    [][\A fd \in FDs :
          LET entries(clients) == Len(SelectSeq(clients, LAMBDA c : c.fd = fd))
              accepted(raw) ==
                  /\ deserialize(raw).type = "AUTH"
                  /\ deserialize(raw).token \in DOMAIN active_tokens_
                  /\ ~is_expired(active_tokens_[deserialize(raw).token], sys_now)
          IN /\ pc[fd] = "auth" =>
                   \A raw \in Inputs(fd) :
                       LET r == handshake(Snapshot, fd, raw, sys_now, TRUE)
                       IN /\ accepted(raw) <=> r.pc[fd] = "foyer"
                          /\ accepted(raw) <=> r.clients # connected_clients_
                          /\ ~accepted(raw) => r.pc[fd] = "closed"
             /\ (pc[fd] = "auth" /\ last'.fd = fd) =>
                   IF last'.ev = "auth_ok"
                   THEN /\ pc'[fd] = "foyer"
                        /\ client_info'[fd].token \in DOMAIN active_tokens_
                        /\ ~is_expired(active_tokens_[client_info'[fd].token], sys_now)
                        /\ connected_clients_' =
                               Append(connected_clients_,
                                      ClientInfo(fd, client_info'[fd].name,
                                                 client_info'[fd].token))
                   ELSE /\ last'.ev \in {"recv_failed", "auth_not_auth", "auth_rejected"}
                        /\ pc'[fd] = "closed"
                        /\ connected_clients_' = connected_clients_
                        /\ chat_rooms_' = chat_rooms_
                        /\ client_info' = client_info
                        /\ pending' = pending
                        /\ \A g \in FDs \ {fd} : pc'[g] = pc[g]
             /\ entries(connected_clients_') > entries(connected_clients_) =>
                   last' = Event(fd, "auth_ok", "")
             /\ (pc[fd] \in {"closed", "auth"} /\ pc'[fd] \notin {"closed", "auth"}) =>
                   last' = Event(fd, "auth_ok", "")]_vars

\* A handshake on descriptor 4 has just been refused after the client's
\* token expired, while the other client is in a room.
C24_Witness ==
    /\ last = Event(4, "auth_rejected", "")
    /\ pc[4] = "closed"
    /\ "T1" \in DOMAIN issued
    /\ issued["T1"] < sys_now
    /\ "T1" \notin DOMAIN active_tokens_
    /\ pc[5] = "room"

\* The ways a member's worker stops serving a room.
Departures == {"leave", "quit", "recv_failed", "token_rejected"}

\* C28: a room, once created, is never removed from the directory: no step
\* removes a room, "General" is always there, and after every leave, quit
\* or disconnect each room in the directory can still be joined by a client
\* in the foyer.
C28_RoomsAreNeverRemoved ==
    [][/\ "General" \in DOMAIN chat_rooms_
       /\ \A n \in DOMAIN chat_rooms_ : n \in DOMAIN chat_rooms_'
       /\ \A n \in DOMAIN chat_rooms_' : \A fd \in FDs :
              (last'.ev \in Departures /\ pc'[fd] = "foyer") =>
                  LET s == [Snapshot EXCEPT !.rooms = chat_rooms_', !.info = client_info',
                                            !.clients = connected_clients_']
                      j == join_room(s, fd, n)
                  IN j.ok /\ has_client(j.rooms[n], fd)]_vars

\* A client has just joined "r1" after its creator, the only member, left it.
C28_Witness ==
    /\ last.ev = "join_ok"
    /\ last.room = "r1"
    /\ Len(chat_rooms_["r1"].clients) = 1
    /\ Len(chat_rooms_["r1"].chat_history_) = 3
    /\ \E name \in DisplayNames :
           chat_rooms_["r1"].chat_history_[2] = create_broadcast_message(SERVER, LeftText(name))


-----------------------------------------------------------------------------
(* Claims about the server's locks (SpecLocks)                             *)

\* The next operation of w is a lock on a mutex another thread holds.
Blocked(w) ==
    /\ prog[w] # << >>
    /\ Head(prog[w]).op = "lock"
    /\ ~mutex_free(Head(prog[w]).arg)

\* C21: the client-registry, room-directory and token-cache locks and a
\* room's lock are never nested: no worker holds two of them, none holds one
\* of them when it asks for another, and whenever some worker has work left,
\* some worker can take its next step (no deadlock).
C21_LocksNeverNested ==
    /\ \A w \in FDs :
           /\ Cardinality(held[w] \cap GuardedMutexes) <= 1
           /\ (prog[w] # << >> /\ Head(prog[w]).op = "lock"
                   /\ Head(prog[w]).arg \in GuardedMutexes) =>
                  held[w] \cap GuardedMutexes = {}
    /\ (\E w \in FDs : prog[w] # << >>) =>
           \E w \in FDs : prog[w] # << >> /\ ~Blocked(w)

\* One worker waits for rooms_mutex_ while the other holds it.
C21_Witness ==
    \E w, v \in FDs :
        /\ w # v
        /\ Blocked(w)
        /\ Head(prog[w]).arg = "rooms_mutex_"
        /\ "rooms_mutex_" \in held[v]

\* C22: no lock is held across a send to a client, except room_mutex_ inside
\* broadcast_message: whenever a worker is about to send, it holds none of
\* the registry, directory, cache and room locks, unless the send is one of
\* broadcast_message's and the lock is the room's.
C22_NoLockHeldAcrossSend ==
    \A w \in FDs :
        (prog[w] # << >> /\ Head(prog[w]).op = "send") =>
            \/ held[w] \cap GuardedMutexes = {}
            \/ /\ Head(prog[w]).arg = "BROADCAST"
               /\ held[w] \cap GuardedMutexes = {"room_mutex_"}


-----------------------------------------------------------------------------
(* Claims about ThreadSafeQueue (SpecQueue)                                *)

Items(seq) == [i \in 1..Len(seq) |-> seq[i].item]

\* The pushes the queue took in, in the order their calls returned.
Accepted == SelectSeq(pushed, LAMBDA x : x.accepted)

\* C29: the queue is FIFO: the items a consumer has popped are in the order
\* in which their pushes completed, and while one consumer alone has popped,
\* what it got is exactly the first pushes, in order, whether the items were
\* already queued or the consumer was waiting when they were pushed.
C29_PoppedInPushOrder ==
    \A c \in Consumers :
        LET mine == Items(SelectSeq(popped, LAMBDA x : x.by = c))
            pos(x) == CHOOSE k \in 1..Len(pushed) : pushed[k].item = x
        IN /\ \A i \in 1..Len(mine) : \E k \in 1..Len(pushed) : pushed[k].item = mine[i]
           /\ \A i, j \in 1..Len(mine) : i < j => pos(mine[i]) < pos(mine[j])
           /\ Len(mine) = Len(popped) =>
                  /\ Len(mine) <= Len(Accepted)
                  /\ mine = SubSeq(Items(Accepted), 1, Len(mine))

\* Consumer 3 alone has popped both items of producer 1, the second one by
\* a pop that was waiting when it was pushed.
C29_Witness ==
    /\ Items(pushed) = <<11, 12>>
    /\ popped = <<[item |-> 11, by |-> 3], [item |-> 12, by |-> 3]>>
    /\ qlast = QCall("pop", 3, TRUE, 12, TRUE)

\* C30: no item is lost or duplicated: every item the queue took in is
\* either still queued or was returned by exactly one successful dequeue,
\* so the successful dequeues plus the size equal the pushes taken in; and
\* until stop is called every push is taken in.
C30_NoItemLostOrDuplicated ==
    LET out == Items(popped) \o queue_
        count(x, seq) == Cardinality({k \in 1..Len(seq) : seq[k] = x})
    IN /\ Len(popped) + Len(queue_) = Len(Accepted)
       /\ \A k \in 1..Len(Accepted) : count(Accepted[k].item, out) = 1
       /\ \A k \in 1..Len(out) : count(out[k], Items(Accepted)) = 1
       /\ ~stopped_ => Accepted = pushed

\* Both producers have pushed all their items, both consumers have each
\* dequeued some, and the rest is still queued.
C30_Witness ==
    /\ ~stopped_
    /\ \A p \in Producers : PushedBy(p) = MaxPushes
    /\ \A c \in Consumers : \E k \in 1..Len(popped) : popped[k].by = c
    /\ queue_ # << >>


\* C31: stop() wakes every thread blocked in pop() on an empty queue: a pop
\* that is waiting when the queue is stopped and empty eventually returns
\* false, and a pop called on a stopped empty queue returns false at once,
\* without waiting.
C31_StopWakesWaitingPops ==
    /\ \A c \in Consumers :
           (qpc[c] = "pop" /\ stopped_ /\ queue_ = << >>)
               ~> (qlast = QCall("pop", c, FALSE, NoItem, TRUE))
    /\ [][\A c \in Consumers :
              (stopped_ /\ queue_ = << >> /\ qpc[c] = "idle"
                   /\ qlast'.op = "pop" /\ qlast'.by = c) =>
                  /\ qlast' = QCall("pop", c, FALSE, NoItem, FALSE)
                  /\ qpc'[c] = "idle"]_vars
    /\ [][\A c \in Consumers : (stopped_ /\ qpc[c] = "idle") => qpc'[c] # "pop"]_vars

\* A pop that was waiting on the empty queue has returned false after stop().
C31_Witness ==
    /\ stopped_
    /\ queue_ = << >>
    /\ pushed = << >>
    /\ \E c \in Consumers : qlast = QCall("pop", c, FALSE, NoItem, TRUE)

\* C32: after stop(), push is ignored: a push on a stopped queue leaves the
\* contents and the size of the queue as they were, and no step resets the
\* stopped flag.
C32_PushIgnoredAfterStop ==
    [][/\ (stopped_ /\ qlast'.op = "push") =>
              /\ queue_' = queue_
              /\ Len(queue_') = Len(queue_)
              /\ popped' = popped
       /\ stopped_ => stopped_']_vars

\* A push has just returned on a stopped queue that still holds an item.
C32_Witness ==
    /\ stopped_
    /\ qlast.op = "push"
    /\ queue_ # << >>
    /\ ~pushed[Len(pushed)].accepted

C40_DequeuesAgreeAfterStop ==
    [][(stopped_ /\ qlast'.op \in {"pop", "try_pop", "try_pop_immediate"}) =>
           /\ qlast'.ok <=> queue_ # << >>
           /\ qlast'.ok => qlast'.item = Head(queue_) /\ queue_' = Tail(queue_)]_vars


-----------------------------------------------------------------------------
(* The client's application thread.  application_loop takes one network    *)
(* message or one input event at a time, so each is one step.  The bytes   *)
(* of one recv arrive as one message, whatever they hold.                  *)

MaxChat == 2

RoomListText == <<"ROOM_LIST", "\n", "General", "|", "2", "\n", "END_", "ROOM_LIST", "\n">>

\* The names a room can have: CREATE_ROOM takes any text.
ClientRoomNames == {<<"General">>, <<"LEFT_ROOM">>}

JoinedRoomText(name) == <<"JOINED_ROOM", ":">> \o name \o <<"\n">>

NetworkMessages ==
    {JoinedRoomText(name) : name \in ClientRoomNames}
        \cup {RoomListText,
              <<"LEFT_ROOM", "\n">>,
              <<"LEFT_ROOM", "\n">> \o RoomListText,
              <<"SERVER_DISCONNECTED", "\n">>,
              <<"BROADCAST", ":", "Bob: hi", "\n">>,
              <<"CHAT", ":", "Bob: hi", "\n">>,
              <<"MEMBER_LIST", ":", "TestUser", ",", "Bob", "\n">>,
              <<"ROOM_NOT_FOUND", "\n">>,
              <<"ROOM_EXISTS", "\n">>}

ClientStep ==
    /\ ret' = NoRet
    /\ cret' = NoCRet
    /\ NoWorkerStep
    /\ UNCHANGED <<authVars, cacheVars, connected_clients_, chat_rooms_, client_info, pc,
                   pending, total_added, room_mutex_, bstate, received, lockVars, queueVars,
                   joinVars>>

ClientApply(m, message) ==
    /\ Len(m.state_.chat_messages_) <= MaxChat
    /\ in_room_' = m.in_room_
    /\ state_' = m.state_
    /\ ui_commands_' = m.ui_commands_
    /\ inbound_msg' = message
    /\ ClientStep

ProcessNetworkMessage ==
    \E message \in NetworkMessages :
        ClientApply(process_network_message(Manager(in_room_, state_, << >>), message), message)

ProcessInputEvent ==
    \E event_type \in {"LOGIN", "LOGOUT", "CHAT_MESSAGE"}, logged_in \in BOOLEAN :
        ClientApply(process_input_event(Manager(in_room_, state_, << >>),
                                        event_type, <<"hello">>, logged_in), << >>)

NextClient == ProcessNetworkMessage \/ ProcessInputEvent

SpecClient == Init /\ [][NextClient]_vars

-----------------------------------------------------------------------------
(* C34  The client's screen follows the room replies.  A message holding  *)
(* a room list pushes SHOW_FOYER and then UPDATE_ROOM_LIST, and shows the  *)
(* foyer, exactly when the client is not in a room; the reply              *)
(* JOINED_ROOM:<name> shows the chat room with <name> as the current room; *)
(* and LEFT_ROOM followed by a room list shows the foyer with no current   *)
(* room.  The second part fails for a room whose name holds the text       *)
(* LEFT_ROOM.                                                              *)

ShowsFoyer(ui) ==
    \E i \in 1..(Len(ui) - 1) :
        ui[i].type = "SHOW_FOYER" /\ ui[i + 1].type = "UPDATE_ROOM_LIST"

C34_ScreenFollowsRoomReplies ==
    [][/\ (inbound_msg' # << >> /\ find(inbound_msg', <<"ROOM_LIST">>, 1) # npos) =>
              /\ ShowsFoyer(ui_commands_') <=> ~in_room_'
              /\ ~in_room_' => state_'.current_screen_ = "FOYER"
       /\ \A name \in ClientRoomNames :
              inbound_msg' = JoinedRoomText(name) =>
                  /\ state_'.current_screen_ = "CHATROOM"
                  /\ state_'.current_room_ = name
       /\ inbound_msg' = <<"LEFT_ROOM", "\n">> \o RoomListText =>
              /\ state_'.current_screen_ = "FOYER"
              /\ state_'.current_room_ = << >>]_vars


-----------------------------------------------------------------------------
(* C38  A room's member list holds no connection id twice, and every id   *)
(* in it is the id of a session that is connected now: it is in the client *)
(* registry and its worker is running.  It fails once a member's           *)
(* connection closes while it is in the room, and then twice over when the *)
(* descriptor is given to a new connection that joins the same room.       *)

Entries(clients, fd) == Len(SelectSeq(clients, LAMBDA c : c.fd = fd))

C38_NoDuplicateMembers ==
    \A n \in DOMAIN chat_rooms_ : \A fd \in FDs :
        Entries(chat_rooms_[n].clients, fd) <= 1

C38_MembersAreDistinctAndConnected ==
    /\ C38_NoDuplicateMembers
    /\ \A n \in DOMAIN chat_rooms_ : \A i \in 1..Len(chat_rooms_[n].clients) :
           LET fd == chat_rooms_[n].clients[i].fd
           IN /\ pc[fd] # "closed"
              /\ Entries(connected_clients_, fd) = 1


-----------------------------------------------------------------------------
(* Claims about sessions, tokens and the authority (SpecSession)           *)

\* C39: the token cache fails closed.  A check of a token with no cache
\* entry younger than 30 s asks the authority; when the authority gives no
\* response the check returns false, the cache is left as it was, and the
\* worker that made the check sends the error, leaves the registry and
\* closes.  A check of a token whose entry is younger than 30 s returns true
\* without asking, whether or not the authority could be reached, and the
\* worker goes on to act on the message.
C39_CacheFailsClosed ==
    [][cret'.op = "validate_token" =>
          LET t == cret'.token
              fd == last'.fd
              fresh == /\ t \in DOMAIN token_cache_
                       /\ steady_now - token_cache_[t] < TOKEN_CACHE_SECONDS
          IN /\ fresh =>
                   /\ cret'.result
                   /\ ~cret'.contacted
                   /\ token_cache_' = token_cache_
                   /\ active_tokens_' = active_tokens_
                   /\ last'.ev # "token_rejected"
                   /\ pc'[fd] # "closed"
             /\ (~fresh /\ ~cret'.reachable) =>
                   /\ cret'.contacted
                   /\ ~cret'.result
                   /\ token_cache_' = token_cache_
                   /\ last'.ev = "token_rejected"
                   /\ sent' = <<[to |-> fd, msg |-> InvalidTokenError]>>
                   /\ pc'[fd] = "closed"
                   /\ \A i \in 1..Len(connected_clients_') : connected_clients_'[i].fd # fd
      ]_vars

\* C39 witness: a client in General sent a message with its own token, which
\* the authority still holds; the cache entry was 30 s old, the authority
\* did not answer, and the worker sent the error and closed.
C39_Witness ==
    /\ last.ev = "token_rejected"
    /\ last.room = "General"
    /\ cret.op = "validate_token"
    /\ cret.contacted
    /\ ~cret.reachable
    /\ ~cret.result
    /\ cret.token \in DOMAIN active_tokens_
    /\ ~is_expired(active_tokens_[cret.token], sys_now)
    /\ cret.token \in DOMAIN token_cache_
    /\ steady_now - token_cache_[cret.token] >= TOKEN_CACHE_SECONDS
    /\ pc[last.fd] = "closed"

\* C35: a session acts only while the token it authenticated with is good.
\* Once that token is revoked or expired at the authority and has no cache
\* entry younger than 30 s, no CREATE_ROOM, JOIN_ROOM, LEAVE or CHAT_MESSAGE
\* of that connection is carried out and no room changes, whichever token
\* the message header carries.  It fails when the header carries another
\* session's good token.
SessionTokenDead(fd) ==
    LET t == client_info[fd].token
    IN /\ t \notin DOMAIN active_tokens_ \/ is_expired(active_tokens_[t], sys_now)
       /\ ~(t \in DOMAIN token_cache_ /\ steady_now - token_cache_[t] < TOKEN_CACHE_SECONDS)

C35_SessionBoundToItsToken ==
    [][\A fd \in FDs :
          ( /\ pc[fd] \in {"foyer", "room"}
            /\ last'.fd = fd
            /\ last'.ev # "recv_failed"
            /\ SessionTokenDead(fd) ) =>
              /\ last'.ev \notin {"create_ok", "join_ok", "leave", "chat"}
              /\ chat_rooms_' = chat_rooms_
      ]_vars

\* The same with the header's token being the session's own: this holds.
C35_OwnTokenOnly ==
    [][\A fd \in FDs :
          ( /\ pc[fd] \in {"foyer", "room"}
            /\ last'.fd = fd
            /\ last'.ev # "recv_failed"
            /\ cret'.token = client_info[fd].token
            /\ SessionTokenDead(fd) ) =>
              /\ last'.ev = "token_rejected"
              /\ chat_rooms_' = chat_rooms_
      ]_vars


-----------------------------------------------------------------------------
(* ClientManager::join_room call by call.  The workers of descriptors 4    *)
(* and 5 join General, of which descriptor 6 is a member that chats.  Each *)
(* ChatRoom method runs under room_mutex_ and is one step; a worker can be *)
(* overtaken between two of its calls, and between two sends of the member *)
(* list, which are made with no lock held.                                 *)

MaxJoinChats == 1

Joiners == {4, 5}

InitJoin ==
    /\ users_ = MapPut(MapPut(EmptyMap, "test", User("test", hash_password(test123), TestUser)),
                       "bob", User("bob", hash_password(hunter2), Bob))
    /\ active_tokens_ = EmptyMap
    /\ sys_now = 0
    /\ issued = EmptyMap
    /\ token_cache_ = EmptyMap
    /\ steady_now = 0
    /\ connected_clients_ = <<ClientInfo(6, Carol, ""), ClientInfo(4, TestUser, ""),
                              ClientInfo(5, Bob, "")>>
    /\ chat_rooms_ = MapPut(EmptyMap, "General", add_client(NewChatRoom, 6, Carol))
    /\ client_info = [fd \in FDs |-> [name |-> IF fd = 4 THEN TestUser ELSE Bob,
                                      current_room |-> "", token |-> ""]]
    /\ pc = [fd \in FDs |-> "foyer"]
    /\ pending = [fd \in FDs |-> ""]
    /\ ret = NoRet
    /\ cret = NoCRet
    /\ last = NoEvent
    /\ sent = << >>
    /\ total_added = 0
    /\ room_mutex_ = 0
    /\ bstate = [w \in FDs |-> NotBroadcasting]
    /\ received = [fd \in OrderFDs |-> << >>]
    /\ InitLocks
    /\ InitQueue
    /\ InitClient
    /\ jstate = [w \in JoinThreads |-> NotJoining]

\* What a step of thread w sends is delivered in the order it is sent.
Deliver(out) ==
    /\ sent' = out
    /\ received' = [fd \in OrderFDs |->
                       received[fd] \o [k \in 1..Len(SelectSeq(out, LAMBDA o : o.to = fd)) |->
                                           SelectSeq(out, LAMBDA o : o.to = fd)[k].msg]]

JoinStep(w, ev) ==
    /\ last' = Event(w, ev, "General")
    /\ ret' = NoRet
    /\ cret' = NoCRet
    /\ UNCHANGED <<authVars, cacheVars, connected_clients_, pc, pending,
                   total_added, room_mutex_, bstate, lockVars, queueVars, clientVars>>

\* client_info.current_room = room_name; room->add_client(...)
JoinAddClient(w) ==
    /\ jstate[w].pc = "idle"
    /\ client_info' = [client_info EXCEPT ![w].current_room = "General"]
    /\ chat_rooms_' = [chat_rooms_ EXCEPT !["General"] = add_client(@, w, client_info[w].name)]
    /\ jstate' = [jstate EXCEPT ![w].pc = "added"]
    /\ Deliver(<< >>)
    /\ JoinStep(w, "add_client")

\* room->broadcast_message(join_str, client_fd)
JoinNotice(w) ==
    /\ jstate[w].pc = "added"
    /\ LET b == broadcast_message(chat_rooms_["General"],
                    create_broadcast_message(SERVER, JoinedText(client_info[w].name)), w)
       IN /\ chat_rooms_' = [chat_rooms_ EXCEPT !["General"] = b.room]
          /\ Deliver(b.out)
    /\ jstate' = [jstate EXCEPT ![w].pc = "noticed"]
    /\ UNCHANGED client_info
    /\ JoinStep(w, "join_notice")

\* room->send_history_to_client(client_fd)
JoinHistory(w) ==
    /\ jstate[w].pc = "noticed"
    /\ Deliver(send_history_to_client(chat_rooms_["General"], w))
    /\ jstate' = [jstate EXCEPT ![w].pc = "replayed"]
    /\ UNCHANGED <<client_info, chat_rooms_>>
    /\ JoinStep(w, "history")

\* The ROOM_JOINED reply and broadcast_room_list_to_foyer.
JoinReply(w) ==
    /\ jstate[w].pc = "replayed"
    /\ LET s == send([Snapshot EXCEPT !.info = client_info], w, create_room_joined("General"))
       IN Deliver(broadcast_room_list_to_foyer(s).out)
    /\ jstate' = [jstate EXCEPT ![w].pc = "joined"]
    /\ UNCHANGED <<client_info, chat_rooms_>>
    /\ JoinStep(w, "room_joined")

\* broadcast_member_list_to_room: auto members = room->get_client_names()
JoinGetNames(w) ==
    /\ jstate[w].pc = "joined"
    /\ jstate' = [jstate EXCEPT ![w].pc = "names",
                                ![w].members = get_client_names(chat_rooms_["General"])]
    /\ Deliver(<< >>)
    /\ UNCHANGED <<client_info, chat_rooms_>>
    /\ JoinStep(w, "get_client_names")

\* auto client_fds = room->get_client_fds()
JoinGetFds(w) ==
    /\ jstate[w].pc = "names"
    /\ jstate' = [jstate EXCEPT ![w].pc = "sending", ![w].idx = 1,
                                ![w].client_fds = get_client_fds(chat_rooms_["General"])]
    /\ Deliver(<< >>)
    /\ UNCHANGED <<client_info, chat_rooms_>>
    /\ JoinStep(w, "get_client_fds")

\* One turn of the loop over client_fds; after the last, join_room returns.
JoinSendList(w) ==
    /\ jstate[w].pc = "sending"
    /\ LET j == jstate[w]
       IN IF j.idx <= Len(j.client_fds)
          THEN /\ Deliver(<<[to |-> j.client_fds[j.idx],
                             msg |-> create_participant_list(j.members)]>>)
               /\ jstate' = [jstate EXCEPT ![w].idx = @ + 1]
          ELSE /\ Deliver(<< >>)
               /\ jstate' = [jstate EXCEPT ![w].pc = "done"]
    /\ UNCHANGED <<client_info, chat_rooms_>>
    /\ JoinStep(w, IF jstate[w].idx <= Len(jstate[w].client_fds) THEN "member_list" ELSE "joined")

\* The member on descriptor 6 sends a CHAT_MESSAGE: room->broadcast_message.
\* jstate[6].idx counts the messages it has sent.
MemberChat ==
    /\ jstate[6].idx < MaxJoinChats
    /\ LET b == broadcast_message(chat_rooms_["General"],
                                  create_broadcast_message(Carol, <<"hi">>), 6)
       IN /\ chat_rooms_' = [chat_rooms_ EXCEPT !["General"] = b.room]
          /\ Deliver(b.out)
    /\ jstate' = [jstate EXCEPT ![6].idx = @ + 1]
    /\ UNCHANGED client_info
    /\ JoinStep(6, "chat")

JoinAdd == \E w \in Joiners : JoinAddClient(w)
JoinBroadcastNotice == \E w \in Joiners : JoinNotice(w)
JoinSendHistory == \E w \in Joiners : JoinHistory(w)
JoinSendReply == \E w \in Joiners : JoinReply(w)
JoinNames == \E w \in Joiners : JoinGetNames(w)
JoinFds == \E w \in Joiners : JoinGetFds(w)
JoinMemberList == \E w \in Joiners : JoinSendList(w)

NextJoin ==
    \/ JoinAdd
    \/ JoinBroadcastNotice
    \/ JoinSendHistory
    \/ JoinSendReply
    \/ JoinNames
    \/ JoinFds
    \/ JoinMemberList
    \/ MemberChat

SpecJoin == InitJoin /\ [][NextJoin]_vars

-----------------------------------------------------------------------------
(* Claims about concurrent joins (SpecJoin)                                *)

\* C36: member lists converge.  When both joins have returned, the last
\* PARTICIPANT_LIST delivered to each member of General names exactly the
\* members General has.  It fails: a worker that read the names before the
\* other joiner was added can send its list after the other worker's.
LastMemberList(fd) ==
    LET lists == SelectSeq(received[fd], LAMBDA m : m.type = "PARTICIPANT_LIST")
    IN IF lists = << >> THEN << >> ELSE lists[Len(lists)].list

Names(seq) == {seq[i] : i \in 1..Len(seq)}

C36_MemberListsConverge ==
    (\A w \in Joiners : jstate[w].pc = "done") =>
        \A i \in 1..Len(chat_rooms_["General"].clients) :
            Names(LastMemberList(chat_rooms_["General"].clients[i].fd))
                = Names(get_client_names(chat_rooms_["General"]))

\* C37: a joiner is sent each message broadcast in the room at most once,
\* live or in the replay of the history.  It fails for a message broadcast
\* after the joiner's add_client and before its send_history_to_client.
Payload(m) == [m EXCEPT !.type = "MESSAGE"]

Deliveries(fd, message) ==
    Len(SelectSeq(received[fd],
                  LAMBDA m : m.type \in {"MESSAGE", "BROADCAST:MESSAGE"}
                                 /\ Payload(m) = message))

C37_JoinerGetsEachMessageOnce ==
    \A w \in Joiners :
        \A k \in 1..Len(chat_rooms_["General"].chat_history_) :
            Deliveries(w, chat_rooms_["General"].chat_history_[k]) <= 1

=============================================================================
